---- MODULE Spec2Model ----
(***************************************************************************)
(* A model of the financial-analysis-api engine:                           *)
(*   - AIAnalyst.analyze           (engine/ai_analysis.py), the provider   *)
(*     chain of one conversational-question request;                       *)
(*   - ModelManager                (engine/models.py), the process-wide    *)
(*     holder of the lazily loaded models, used by several threads;        *)
(*   - SECIngestor and SecService  (engine/ingest_sec.py,                  *)
(*     api/services/sec_edgar.py), ticker resolution, filing location,     *)
(*     the filing text cache and the two GET wrappers.                     *)
(* Each component has its own specification over its own variables.        *)
(***************************************************************************)
EXTENDS Integers, Sequences, FiniteSets, TLC

VARIABLES
    \* ---- AIAnalyst.analyze: inputs of the request
    env_ollama,     \* os.getenv("OLLAMA_URL") is set
    has_client,     \* self.client and self.api_key
    metrics,        \* the metrics dict: each read key is absent, None or a number
    forecast,       \* the forecast argument: falsy, well formed, or malformed
    \* ---- AIAnalyst.analyze: position and locals
    a_pc,           \* "start", "ollama", "cloud", "done"
    attempt,        \* loop variable of the cloud retry loop
    backoff,        \* local backoff
    last_error,     \* local last_error is set
    \* ---- AIAnalyst.analyze: what the request did
    calls,          \* provider calls made, in order ("ollama", "openai")
    cloud_log,      \* what each cloud call did, in order
    ollama_result,  \* what the _call_ollama of this request met ("none": not called)
    sleeps,         \* arguments of time.sleep, in order
    outcome,        \* "none", "returned", "raised"
    err,            \* which error was raised
    report,         \* the report returned
    \* ---- ModelManager: class and instance attributes
    mm_instance,    \* cls._instance is not None
    mm_lock,        \* holder of cls._lock, or "free"
    mm_initialized, \* instance._initialized: "unset", "false", "true"
    mm_finbert,     \* instance._finbert_pipeline: "unset", "none", "loaded"
    mm_llm_model,   \* instance._llm_model: "unset", "none", "loaded"
    mm_llm_tok,     \* instance._llm_tokenizer: "unset", "none", "loaded"
    \* ---- ModelManager: the threads using it
    t_pc,           \* position of each thread
    t_rounds,       \* constructions each thread has started
    t_result,       \* how the last call of each thread ended
    finbert_loads,  \* completed pipeline(...) loads
    llm_loads,      \* completed AutoModelForCausalLM.from_pretrained loads
    \* ---- SECIngestor / SecService: what outlives a call
    user_agent,     \* SECIngestor.user_agent is set (SEC_USER_AGENT)
    tickers_file,   \* sec_cache/company_tickers.json exists
    text_cache,     \* sec_text/<ticker>_<accession>.txt, per key
    meta_files,     \* sec_cache/<ticker>_<accession>.json exists, per key
    cik_cache,      \* SecService.cik_cache: the tickers it holds
    n_calls,        \* calls started so far
    live_written,   \* per key: a live fetch has written the text file in full
    live_text,      \* per key: the sec_text that live fetch returned
    unreadable,     \* per key: a call found the written file and could not read it
    refetches,      \* per key: document fetches started after it was written
    \* ---- SECIngestor / SecService: the call in progress
    s_obj,          \* "none", "ingestor", "service"
    s_pc,           \* position in the call
    s_ticker,       \* the ticker argument
    s_cik,          \* the resolved CIK, or "none"
    s_feed,         \* local filings while the scan reads it: <<>> or <<feed>>
    s_filing,       \* the filing selected from the feed
    s_lookup,       \* what the cache lookup of this call found
    s_trace,        \* requests sent and cache lookups made, in order
    s_ops,          \* calls of _requests_get made, in order
    s_result,       \* what the call returned
    \* ---- _requests_get: the wrapper call in progress
    g_i,            \* loop variable i
    g_n,            \* requests.get calls made by this wrapper call
    g_backoff,      \* local backoff
    g_sleeps,       \* arguments of time.sleep in this wrapper call
    g_last,         \* what the last request of this wrapper call met
    g_resp,         \* what the wrapper call handed to its caller
    \* ---- XBRLMetrics.get_company_facts
    x_now,          \* time.time(), in seconds
    x_ticks,        \* moves of the clock so far
    x_cache,        \* sec_xbrl_cache/<ticker>_facts.json: exists, mtime, doc
    x_pc,           \* position in the call: "idle", "download"
    x_calls,        \* calls started so far
    x_seen,         \* what the cache check of this call saw
    x_requested,    \* this call requested the companyfacts document
    x_result,       \* how the call ended, and the document it returned
    \* ---- XBRLMetrics.extract_metrics and analyze_xbrl
    e_rev,          \* series_data["revenue"]: value per year, None when absent
    e_pc,           \* "start", "rows", "cagr", "done", "served"
    e_error,        \* extract_metrics returned an "error" entry
    e_targets,      \* target_years
    e_i,            \* rows of the table built so far
    e_row,          \* the row built last: its inputs and its three ratios
    e_raised,       \* the exception that escaped extract_metrics, or "none"
    e_ai,           \* the shapes of revenue and net_margin of the latest row
    e_fmt_fail,     \* a row holds a None that context_str formats
    e_cagr,         \* dashboard_metrics["revenue_cagr_3yr"]
    e_http,         \* how analyze_xbrl ended
    \* ---- FinancialMetrics.calculate_metrics
    c_in,           \* the data file and the rows of the ticker
    c_pc,           \* "start", "done"
    c_out,          \* what calculate_metrics returned, or the exception it let out
    \* ---- Forecaster.generate_forecast
    f_in,           \* metrics_data, and how the fit goes on it
    f_pc,           \* "start", "done"
    f_out,          \* what generate_forecast returned, or the exception it let out
    \* ---- RiskAnalyst
    r_in,           \* the sentences of the risk section, the classifier, top_n
    r_pc,           \* "start", "done"
    r_out,          \* what analyze_risk returned, or the exception it let out
    d_in,           \* the text nodes of the document handed to _extract_risk_section
    d_pc,           \* "start", "done"
    d_out,          \* the slice _extract_risk_section returned
    \* ---- provider replies: _call_openai, _call_ollama, analyze_10k_content
    k_op,           \* which of the three is called
    k_in,           \* the reply text and what the providers and models do
    k_pc,           \* "start", "done"
    k_out,          \* what the call returned, or the exception it let out
    \* ---- concurrent get_latest_filing_text requests for one cache key
    w_doc,          \* the extracted text of the filing of the key
    w_file,         \* sec_text/<ticker>_<accession>.txt
    w_pc,           \* position of each request
    w_calls,        \* calls each request has started
    w_out,          \* what the last call of each request returned
    \* ---- both metrics engines on the same latest-year figures
    b_in,           \* the figures of the latest year
    b_csv,          \* the ratios calculate_metrics computed
    b_xbrl,         \* the ratios extract_metrics computed
    \* ---- the API handlers
    h_req,          \* the request, and how the stages it runs end
    h_pc,           \* position in the handler
    h_warnings,     \* local warnings, by the stage each entry reports
    h_answer,       \* local final_answer
    h_ai_used,      \* local use_ai_actual
    h_combined,     \* local combined_result
    h_resp          \* the response

avars == <<env_ollama, has_client, metrics, forecast, a_pc, attempt, backoff,
           last_error, calls, cloud_log, ollama_result, sleeps, outcome, err,
           report>>

mvars == <<mm_instance, mm_lock, mm_initialized, mm_finbert, mm_llm_model,
           mm_llm_tok, t_pc, t_rounds, t_result, finbert_loads, llm_loads>>

svars == <<user_agent, tickers_file, text_cache, meta_files, cik_cache, n_calls,
           live_written, live_text, unreadable, refetches, s_obj, s_pc, s_ticker, s_cik,
           s_feed, s_filing, s_lookup, s_trace, s_ops, s_result,
           g_i, g_n, g_backoff, g_sleeps, g_last, g_resp>>

xvars == <<x_now, x_ticks, x_cache, x_pc, x_calls, x_seen, x_requested, x_result>>

evars == <<e_rev, e_pc, e_error, e_targets, e_i, e_row, e_raised, e_ai,
           e_fmt_fail, e_cagr, e_http>>

cvars == <<c_in, c_pc, c_out>>

fvars == <<f_in, f_pc, f_out>>

rvars == <<r_in, r_pc, r_out, d_in, d_pc, d_out>>

kvars == <<k_op, k_in, k_pc, k_out>>

wvars == <<w_doc, w_file, w_pc, w_calls, w_out>>

bvars == <<b_in, b_csv, b_xbrl>>

hvars == <<h_req, h_pc, h_warnings, h_answer, h_ai_used, h_combined, h_resp>>

vars == <<avars, mvars, svars, xvars, evars, cvars, fvars, rvars,
          kvars, wvars, bvars, hvars>>

\* What the actions of one component leave alone.
not_avars == <<mvars, svars, xvars, evars, cvars, fvars, rvars, kvars,
               wvars, bvars, hvars>>
not_mvars == <<avars, svars, xvars, evars, cvars, fvars, rvars, kvars,
               wvars, bvars, hvars>>
not_svars == <<avars, mvars, xvars, evars, cvars, fvars, rvars, kvars,
               wvars, bvars, hvars>>
not_xvars == <<avars, mvars, svars, evars, cvars, fvars, rvars, kvars,
               wvars, bvars, hvars>>
not_evars == <<avars, mvars, svars, xvars, cvars, fvars, rvars, kvars,
               wvars, bvars, hvars>>
not_cvars == <<avars, mvars, svars, xvars, evars, fvars, rvars, kvars,
               wvars, bvars, hvars>>
not_fvars == <<avars, mvars, svars, xvars, evars, cvars, rvars, kvars,
               wvars, bvars, hvars>>
not_rvars == <<avars, mvars, svars, xvars, evars, cvars, fvars, kvars,
               wvars, bvars, hvars>>
not_kvars == <<avars, mvars, svars, xvars, evars, cvars, fvars, rvars,
               wvars, bvars, hvars>>
not_wvars == <<avars, mvars, svars, xvars, evars, cvars, fvars, rvars,
               kvars, bvars, hvars>>
not_bvars == <<avars, mvars, svars, xvars, evars, cvars, fvars, rvars,
               kvars, wvars, hvars>>
not_hvars == <<avars, mvars, svars, xvars, evars, cvars, fvars, rvars,
               kvars, wvars, bvars>>

----------------------------------------------------------------------------
(* AIAnalyst.analyze                                                       *)

MetricKeys == {"revenue", "net_margin", "revenue_cagr_3yr"}
MetricShapes == {"absent", "none", "num"}
ForecastShapes == {"falsy", "ok", "malformed"}

\* max_retries = 3
max_retries == 3
\* backoff = 1
InitialBackoff == 1
\* len(result["executive_summary"]) > 20
MinSummaryLen == 20
\* len of the executive_summary of the report _call_openai builds on JSONDecodeError
DegradedSummaryLen == 28

\* Lengths of executive_summary in a provider's JSON reply; 0 stands for a
\* reply with no (or an empty) executive_summary.
SummaryLens == {0, 20, 21}

NoReport == [kind |-> "none", exec_len |-> 0]

\* metrics.get(k, 0) / 1e9 and * 100: a key that is present with value None
\* makes the arithmetic raise TypeError; an absent key reads as 0.
SummaryRaisesMut(m) == FALSE
SummaryRaises(m) == \E k \in MetricKeys : m[k] = "none"

\* forecast['forecast_revenue'][0]: evaluated only for a truthy forecast.
ForecastRaises(f) == f = "malformed"

\* backoff *= 2
NextBackoffMut(b) == b + 1
NextBackoff(b) == b * 2

\* result and result.get("executive_summary") and len(result["executive_summary"]) > 20
ValidatesMut(r) == r.exec_len >= MinSummaryLen
Validates(r) == r.exec_len > MinSummaryLen

\* The report _call_openai returns on json.JSONDecodeError.
DegradedReport == [kind |-> "degraded", exec_len |-> DegradedSummaryLen]

\* The report _call_ollama returns when generation or parsing failed.
\* Its executive_summary is "Ollama Parsing Error (<lang>): <message>", at
\* least 27 characters.
OllamaErrorReport == [kind |-> "ollama_error", exec_len |-> 27]

InitAnalyze ==
    /\ env_ollama \in BOOLEAN
    /\ has_client \in BOOLEAN
    /\ metrics \in [MetricKeys -> MetricShapes]
    /\ forecast \in ForecastShapes
    /\ a_pc = "start"
    /\ attempt = 0
    /\ backoff = 0
    /\ last_error = FALSE
    /\ calls = <<>>
    /\ cloud_log = <<>>
    /\ ollama_result = "none"
    /\ sleeps = <<>>
    /\ outcome = "none"
    /\ err = "none"
    /\ report = NoReport

Raise(e) ==
    /\ a_pc' = "done"
    /\ outcome' = "raised"
    /\ err' = e

Return(r) ==
    /\ a_pc' = "done"
    /\ outcome' = "returned"
    /\ report' = r
    /\ err' = err

\* Entering the cloud branch: max_retries, backoff, last_error are set.
EnterCloud ==
    /\ a_pc' = "cloud"
    /\ attempt' = 0
    /\ backoff' = InitialBackoff
    /\ last_error' = FALSE

\* The final else: no provider at all.
NoProvider == Raise("NotConfigured") /\ UNCHANGED <<attempt, backoff, last_error>>

\* Lines 19-35 and 47, 70-72: the data summary, then the choice of provider.
AnalyzeStart ==
    /\ UNCHANGED not_avars
    /\ a_pc = "start"
    /\ UNCHANGED <<env_ollama, has_client, metrics, forecast, calls, cloud_log,
                   ollama_result, sleeps, report>>
    /\ IF SummaryRaises(metrics)
       THEN Raise("TypeError") /\ UNCHANGED <<attempt, backoff, last_error>>
       ELSE IF ForecastRaises(forecast)
       THEN Raise("KeyError") /\ UNCHANGED <<attempt, backoff, last_error>>
       ELSE IF env_ollama
       THEN a_pc' = "ollama" /\ UNCHANGED <<attempt, backoff, last_error, outcome, err>>
       ELSE IF has_client
       THEN EnterCloud /\ UNCHANGED <<outcome, err>>
       ELSE NoProvider

\* What _call_ollama can meet: the import at its top fails (outside its try),
\* generate_with_ollama raises, the reply is not JSON, or the reply is JSON.
OllamaOutcomes == {"import_error", "gen_error", "bad_json", "json"}

\* Lines 35-45 with _call_ollama (74-157).
CallOllama ==
    /\ UNCHANGED not_avars
    /\ a_pc = "ollama"
    /\ UNCHANGED <<env_ollama, has_client, metrics, forecast, cloud_log, sleeps>>
    /\ \E o \in OllamaOutcomes, n \in SummaryLens :
        /\ ollama_result' = o
        /\ CASE o = "import_error" ->
                   \* _call_ollama raised: analyze's except branch
                   /\ calls' = calls
                   /\ IF ~has_client
                      THEN Raise("OllamaFailedNoKey")
                           /\ UNCHANGED <<attempt, backoff, last_error, report>>
                      ELSE EnterCloud /\ UNCHANGED <<outcome, err, report>>
             [] o \in {"gen_error", "bad_json"} ->
                   \* caught inside _call_ollama (line 149): a placeholder report
                   /\ calls' = Append(calls, "ollama")
                   /\ Return(OllamaErrorReport)
                   /\ UNCHANGED <<attempt, backoff, last_error>>
             [] o = "json" ->
                   /\ calls' = Append(calls, "ollama")
                   /\ Return([kind |-> "llm", exec_len |-> n])
                   /\ UNCHANGED <<attempt, backoff, last_error>>

\* What one _call_openai can do: raise (transport or API error), return the
\* degraded report (reply not JSON), return a JSON value that is not a dict
\* (result.get raises AttributeError), or return a dict.
CloudOutcomes == {"raise", "degraded", "nondict", "dict"}

\* After a failed attempt: sleep, double, next iteration or leave the loop.
FailedAttempt(setsError) ==
    /\ sleeps' = Append(sleeps, backoff)
    /\ backoff' = NextBackoff(backoff)
    /\ last_error' = (last_error \/ setsError)
    /\ attempt' = attempt + 1
    /\ report' = report
    /\ IF attempt + 1 < max_retries
       THEN UNCHANGED <<a_pc, outcome, err>>
       ELSE Raise("RetriesExhausted")

\* Lines 47-69: one iteration of the retry loop.
CloudAttempt ==
    /\ UNCHANGED not_avars
    /\ a_pc = "cloud"
    /\ attempt < max_retries
    /\ UNCHANGED <<env_ollama, has_client, metrics, forecast, ollama_result>>
    /\ calls' = Append(calls, "openai")
    /\ \E o \in CloudOutcomes, n \in SummaryLens :
        /\ cloud_log' = Append(cloud_log, o)
        /\ CASE o \in {"raise", "nondict"} -> FailedAttempt(TRUE)
             [] o = "degraded" ->
                  IF Validates(DegradedReport)
                  THEN Return(DegradedReport)
                       /\ UNCHANGED <<attempt, backoff, last_error, sleeps>>
                  ELSE FailedAttempt(FALSE)
             [] o = "dict" ->
                  IF Validates([kind |-> "llm", exec_len |-> n])
                  THEN Return([kind |-> "llm", exec_len |-> n])
                       /\ UNCHANGED <<attempt, backoff, last_error, sleeps>>
                  ELSE FailedAttempt(FALSE)

NextAnalyze == AnalyzeStart \/ CallOllama \/ CloudAttempt

----------------------------------------------------------------------------
(* ModelManager                                                            *)

Threads == {"t1", "t2"}

\* Constructions (each followed by one accessor call) a thread makes.
MaxRounds == 2

InitModels ==
    /\ mm_instance = FALSE
    /\ mm_lock = "free"
    /\ mm_initialized = "unset"
    /\ mm_finbert = "unset"
    /\ mm_llm_model = "unset"
    /\ mm_llm_tok = "unset"
    /\ t_pc = [t \in Threads |-> "idle"]
    /\ t_rounds = [t \in Threads |-> 0]
    /\ t_result = [t \in Threads |-> "none"]
    /\ finbert_loads = 0
    /\ llm_loads = 0

Goto(t, l) == t_pc' = [t_pc EXCEPT ![t] = l]

\* The call of thread t ends: it returns a value or raises.
EndCall(t, r) ==
    /\ Goto(t, "idle")
    /\ t_result' = [t_result EXCEPT ![t] = r]

\* if self._finbert_pipeline is None
FinbertUnloaded(h) == h = "none"

\* __new__, line 12: the first, unlocked test of cls._instance.
NewCheck(t) ==
    /\ UNCHANGED not_mvars
    /\ t_pc[t] = "idle"
    /\ t_rounds[t] < MaxRounds
    /\ t_rounds' = [t_rounds EXCEPT ![t] = @ + 1]
    /\ t_result' = [t_result EXCEPT ![t] = "none"]
    /\ Goto(t, IF mm_instance THEN "init_check" ELSE "new_lock")
    /\ UNCHANGED <<mm_instance, mm_lock, mm_initialized, mm_finbert, mm_llm_model,
                   mm_llm_tok, finbert_loads, llm_loads>>

\* __new__, line 13: with cls._lock.
NewLock(t) ==
    /\ UNCHANGED not_mvars
    /\ t_pc[t] = "new_lock"
    /\ mm_lock = "free"
    /\ mm_lock' = t
    /\ Goto(t, "new_locked")
    /\ UNCHANGED <<mm_instance, mm_initialized, mm_finbert, mm_llm_model,
                   mm_llm_tok, t_rounds, t_result, finbert_loads, llm_loads>>

\* __new__, lines 14-15: the second test, and the creation of the instance,
\* which has no attribute yet.
NewCreate(t) ==
    /\ UNCHANGED not_mvars
    /\ t_pc[t] = "new_locked"
    /\ IF mm_instance
       THEN /\ mm_lock' = "free"
            /\ Goto(t, "init_check")
            /\ UNCHANGED <<mm_instance, mm_initialized, mm_finbert, mm_llm_model,
                           mm_llm_tok>>
       ELSE /\ mm_instance' = TRUE
            /\ mm_initialized' = "unset"
            /\ mm_finbert' = "unset"
            /\ mm_llm_model' = "unset"
            /\ mm_llm_tok' = "unset"
            /\ Goto(t, "new_setinit")
            /\ UNCHANGED mm_lock
    /\ UNCHANGED <<t_rounds, t_result, finbert_loads, llm_loads>>

\* __new__, line 16, and the end of the with block.
NewSetInitialized(t) ==
    /\ UNCHANGED not_mvars
    /\ t_pc[t] = "new_setinit"
    /\ mm_initialized' = "false"
    /\ mm_lock' = "free"
    /\ Goto(t, "init_check")
    /\ UNCHANGED <<mm_instance, mm_finbert, mm_llm_model, mm_llm_tok, t_rounds,
                   t_result, finbert_loads, llm_loads>>

\* __init__, lines 20-21: if self._initialized: return. An instance another
\* thread has created but not yet given _initialized raises AttributeError.
InitCheck(t) ==
    /\ UNCHANGED not_mvars
    /\ t_pc[t] = "init_check"
    /\ CASE mm_initialized = "unset" -> EndCall(t, "AttributeError")
         [] mm_initialized = "true" -> Goto(t, "ready") /\ UNCHANGED t_result
         [] mm_initialized = "false" -> Goto(t, "init_finbert") /\ UNCHANGED t_result
    /\ UNCHANGED <<mm_instance, mm_lock, mm_initialized, mm_finbert, mm_llm_model,
                   mm_llm_tok, t_rounds, finbert_loads, llm_loads>>

\* __init__, line 26.
InitFinbert(t) ==
    /\ UNCHANGED not_mvars
    /\ t_pc[t] = "init_finbert"
    /\ mm_finbert' = "none"
    /\ Goto(t, "init_llm")
    /\ UNCHANGED <<mm_instance, mm_lock, mm_initialized, mm_llm_model, mm_llm_tok,
                   t_rounds, t_result, finbert_loads, llm_loads>>

\* __init__, lines 27-28.
InitLlm(t) ==
    /\ UNCHANGED not_mvars
    /\ t_pc[t] = "init_llm"
    /\ mm_llm_model' = "none"
    /\ mm_llm_tok' = "none"
    /\ Goto(t, "init_flag")
    /\ UNCHANGED <<mm_instance, mm_lock, mm_initialized, mm_finbert, t_rounds,
                   t_result, finbert_loads, llm_loads>>

\* __init__, line 29.
InitFlag(t) ==
    /\ UNCHANGED not_mvars
    /\ t_pc[t] = "init_flag"
    /\ mm_initialized' = "true"
    /\ Goto(t, "ready")
    /\ UNCHANGED <<mm_instance, mm_lock, mm_finbert, mm_llm_model, mm_llm_tok,
                   t_rounds, t_result, finbert_loads, llm_loads>>

\* get_finbert, line 35 (and line 51 when the handle is there).
GetFinbertCheck(t) ==
    /\ UNCHANGED not_mvars
    /\ t_pc[t] = "ready"
    /\ IF FinbertUnloaded(mm_finbert)
       THEN Goto(t, "finbert_load") /\ UNCHANGED t_result
       ELSE EndCall(t, "finbert")
    /\ UNCHANGED <<mm_instance, mm_lock, mm_initialized, mm_finbert, mm_llm_model,
                   mm_llm_tok, t_rounds, finbert_loads, llm_loads>>

\* get_finbert, lines 37-50: pipeline(...) runs; it returns or raises.
FinbertLoad(t) ==
    /\ UNCHANGED not_mvars
    /\ t_pc[t] = "finbert_load"
    /\ \E ok \in BOOLEAN :
        IF ok
        THEN /\ finbert_loads' = finbert_loads + 1
             /\ Goto(t, "finbert_store")
             /\ UNCHANGED t_result
        ELSE /\ EndCall(t, "LoadError")
             /\ UNCHANGED finbert_loads
    /\ UNCHANGED <<mm_instance, mm_lock, mm_initialized, mm_finbert, mm_llm_model,
                   mm_llm_tok, t_rounds, llm_loads>>

\* get_finbert, lines 41 and 51: the assignment of the handle, and the return.
FinbertStore(t) ==
    /\ UNCHANGED not_mvars
    /\ t_pc[t] = "finbert_store"
    /\ mm_finbert' = "loaded"
    /\ EndCall(t, "finbert")
    /\ UNCHANGED <<mm_instance, mm_lock, mm_initialized, mm_llm_model, mm_llm_tok,
                   t_rounds, finbert_loads, llm_loads>>

\* get_llm, line 57 (and line 96 when the model is there).
GetLlmCheck(t) ==
    /\ UNCHANGED not_mvars
    /\ t_pc[t] = "ready"
    /\ IF mm_llm_model = "none"
       THEN Goto(t, "tok_load") /\ UNCHANGED t_result
       ELSE EndCall(t, "llm")
    /\ UNCHANGED <<mm_instance, mm_lock, mm_initialized, mm_finbert, mm_llm_model,
                   mm_llm_tok, t_rounds, finbert_loads, llm_loads>>

\* get_llm, line 62: the tokenizer is loaded and assigned, or the load raises.
TokLoad(t) ==
    /\ UNCHANGED not_mvars
    /\ t_pc[t] = "tok_load"
    /\ \E ok \in BOOLEAN :
        IF ok
        THEN /\ mm_llm_tok' = "loaded"
             /\ Goto(t, "llm_load")
             /\ UNCHANGED t_result
        ELSE /\ EndCall(t, "LoadError")
             /\ UNCHANGED mm_llm_tok
    /\ UNCHANGED <<mm_instance, mm_lock, mm_initialized, mm_finbert, mm_llm_model,
                   t_rounds, finbert_loads, llm_loads>>

\* get_llm, lines 65-94: from_pretrained runs; it returns or raises.
LlmLoad(t) ==
    /\ UNCHANGED not_mvars
    /\ t_pc[t] = "llm_load"
    /\ \E ok \in BOOLEAN :
        IF ok
        THEN /\ llm_loads' = llm_loads + 1
             /\ Goto(t, "llm_store")
             /\ UNCHANGED t_result
        ELSE /\ EndCall(t, "LoadError")
             /\ UNCHANGED llm_loads
    /\ UNCHANGED <<mm_instance, mm_lock, mm_initialized, mm_finbert, mm_llm_model,
                   mm_llm_tok, t_rounds, finbert_loads>>

\* get_llm, lines 75/84 and 96: the assignment of the model, and the return.
LlmStore(t) ==
    /\ UNCHANGED not_mvars
    /\ t_pc[t] = "llm_store"
    /\ mm_llm_model' = "loaded"
    /\ EndCall(t, "llm")
    /\ UNCHANGED <<mm_instance, mm_lock, mm_initialized, mm_finbert, mm_llm_tok,
                   t_rounds, finbert_loads, llm_loads>>

NextModels ==
    \E t \in Threads :
        \/ NewCheck(t) \/ NewLock(t) \/ NewCreate(t) \/ NewSetInitialized(t)
        \/ InitCheck(t) \/ InitFinbert(t) \/ InitLlm(t) \/ InitFlag(t)
        \/ GetFinbertCheck(t) \/ FinbertLoad(t) \/ FinbertStore(t)
        \/ GetLlmCheck(t) \/ TokLoad(t) \/ LlmLoad(t) \/ LlmStore(t)

----------------------------------------------------------------------------
(* SECIngestor and SecService: data                                        *)

\* Calls of get_latest_filing_text and get_latest_10k in one run.
MaxCalls == 2

\* Ticker arguments; "ZZZZ" is in no directory.
Tickers == {"aapl", "ZZZZ"}

\* ticker.upper()
Upper(t) == IF t = "aapl" THEN "AAPL" ELSE t

\* https://www.sec.gov/files/company_tickers.json: the tickers it lists, and
\* str(cik_str).zfill(10) of each.
Directory == {"AAPL"}
CikOf(t) == "0000320193"

\* Accession numbers as the feed carries them, and accession.replace("-", "").
Accessions == {"0000320193-23-000106", "0000320193-22-000108"}
Clean(a) == IF a = "0000320193-23-000106" THEN "000032019323000106"
            ELSE "000032019322000108"

\* The i-th entry of a feed carries the i-th accession number.
AccessionAt(i) == IF i = 1 THEN "0000320193-23-000106" ELSE "0000320193-22-000108"

Forms == {"10-K", "20-F", "40-F", "8-K"}

\* Entries of a feed's recent filings.
MaxFeedLen == 2

\* filings["form"], filings["accessionNumber"], filings["primaryDocument"],
\* filings["reportDate"]: parallel arrays.
FeedOf(forms) ==
    [recent |-> TRUE,
     form |-> forms,
     accessionNumber |-> [i \in 1..Len(forms) |-> AccessionAt(i)],
     primaryDocument |-> [i \in 1..Len(forms) |-> i],
     reportDate |-> [i \in 1..Len(forms) |-> i]]

FormSeqs == UNION {[1..n -> Forms] : n \in 0..MaxFeedLen}

\* A submissions document with no "filings"/"recent" object.
NoFeed == [FeedOf(<<>>) EXCEPT !.recent = FALSE]

Feeds == {FeedOf(f) : f \in FormSeqs} \cup {NoFeed}

\* Submissions documents in which an array the scan reads is shorter than
\* accessionNumber: the form array, or the primaryDocument array (absent or
\* empty).
MalformedFeeds ==
    {[FeedOf(<<"8-K">>) EXCEPT !.accessionNumber = <<AccessionAt(1), AccessionAt(2)>>],
     [FeedOf(<<"10-K">>) EXCEPT !.primaryDocument = <<>>]}

\* A selected filing; index 0 is no filing.
NoFiling == [index |-> 0, accession |-> "none", form |-> "none",
             primaryDocument |-> 0, reportDate |-> 0]

\* if form in ["10-K", "20-F", "40-F"]
IngestorFormsMut == {"10-K"}
IngestorForms == {"10-K", "20-F", "40-F"}

\* if form == "10-K"
ServiceForms == {"10-K"}

\* The scan of the feed: the first index whose form is accepted, with the
\* other fields read at that index (ingest_sec.py 150-158, sec_edgar.py 90-98).
RECURSIVE ScanFrom(_, _, _)
ScanFrom(feed, accepted, i) ==
    IF i > Len(feed.form) THEN NoFiling
    ELSE IF feed.form[i] \in accepted
    THEN [index |-> i, accession |-> feed.accessionNumber[i], form |-> feed.form[i],
          primaryDocument |-> feed.primaryDocument[i],
          reportDate |-> feed.reportDate[i]]
    ELSE ScanFrom(feed, accepted, i + 1)

SelectFiling(feed, accepted) == ScanFrom(feed, accepted, 1)

\* count = len(filings.get("accessionNumber", [])); for i in range(count)
IngestorCount(feed) == Len(feed.accessionNumber)

\* The scan of ingest_sec.py 149-158 raises IndexError (KeyError for an
\* absent array) when it reads filings["form"][i] past the end of form, or
\* primaryDocument[i], reportDate[i] past their end at the accepted entry;
\* the reads are outside every try.
IngestorScanRaises(feed) ==
    \E i \in 1..IngestorCount(feed) :
        /\ \A j \in 1..(i - 1) :
              j <= Len(feed.form) /\ feed.form[j] \notin IngestorForms
        /\ \/ i > Len(feed.form)
           \/ /\ feed.form[i] \in IngestorForms
              /\ i > Len(feed.primaryDocument) \/ i > Len(feed.reportDate)

\* The filing the scan selects when it does not raise.
IngestorSelect(feed) ==
    LET n == IF Len(feed.form) < IngestorCount(feed)
             THEN Len(feed.form) ELSE IngestorCount(feed)
    IN SelectFiling([feed EXCEPT !.form = SubSeq(feed.form, 1, n)], IngestorForms)

\* Texts: a text is the first len characters of the extracted text of one
\* document, which has `of` characters.
TextLens == {0, 20001}

\* clean_text[:20000]
ReturnLimit == 20000

NoText == [len |-> 0, of |-> 0]

FullText(n) == [len |-> n, of |-> n]

Min(a, b) == IF a < b THEN a ELSE b

\* text[:n]
Prefix(text, n) == [len |-> Min(text.len, n), of |-> text.of]

\* A file of the text cache.
NoFile == [exists |-> FALSE, text |-> NoText]
FileOf(text) == [exists |-> TRUE, text |-> text]

\* cache_text_filename = f"{ticker}_{clean_accession}.txt"
Keys == {<<t, Clean(a)>> : t \in {t \in Tickers : Upper(t) \in Directory}, a \in Accessions}
KeyOf(t, a) == <<t, Clean(a)>>
NoKey == <<"none", "none">>

\* The result of a call: status for SECIngestor, code for SecService; why
\* names the message that comes with a failure.
NoResult == [status |-> "none", code |-> 0, source |-> "none", text |-> NoText,
             why |-> "none"]
IngestorResult(st, src, txt) ==
    [status |-> st, code |-> 0, source |-> src, text |-> txt, why |-> "none"]
IngestorFailure(st, w) ==
    [status |-> st, code |-> 0, source |-> "none", text |-> NoText, why |-> w]
ServiceResult(c, w) ==
    [status |-> "none", code |-> c, source |-> "none", text |-> NoText, why |-> w]

NoLookup == [done |-> FALSE, key |-> NoKey, existed |-> FALSE, live |-> FALSE,
             readable |-> FALSE]

----------------------------------------------------------------------------
(* The GET wrappers                                                        *)

\* retries = 3
retries == 3

Statuses == {200, 404, 429, 503}

\* What one requests.get meets: a response with a status, or a
\* requests.RequestException.
NoOutcome == [exc |-> FALSE, status |-> 0]
Outcomes == {[exc |-> TRUE, status |-> 0]}
            \cup {[exc |-> FALSE, status |-> x] : x \in Statuses}

\* What a wrapper call hands to its caller: a response it received, the empty
\* requests.Response() (status_code None, here 0), or an exception.
NoResp == [kind |-> "none", status |-> 0]
Received(st) == [kind |-> "response", status |-> st]
Sentinel == [kind |-> "sentinel", status |-> 0]
Raised == [kind |-> "raised", status |-> 0]

\* resp.status_code == 200
IsOk(r) == r.kind = "response" /\ r.status = 200

\* SECIngestor._requests_get: if resp.status_code in [429, 503]
IngestorRetries(st) == st \in {429, 503}

\* SecService._requests_get: if resp.status_code == 429
ServiceRetries(st) == st = 429

\* SECIngestor._requests_get: if i == retries - 1
LastAttemptMut(i) == FALSE
LastAttempt(i) == i = retries - 1

\* The URL of the wrapper call in progress.
CurrentUrl == s_ops[Len(s_ops)]

\* The caller calls self._requests_get(url).
StartGet(url) ==
    /\ s_pc' = "get"
    /\ s_ops' = Append(s_ops, url)
    /\ g_i' = 0
    /\ g_n' = 0
    /\ g_backoff' = 1
    /\ g_sleeps' = <<>>
    /\ g_last' = NoOutcome
    /\ g_resp' = NoResp

\* The first wrapper call of a call.
StartFirstGet(url) ==
    /\ s_pc' = "get"
    /\ s_ops' = <<url>>
    /\ g_i' = 0
    /\ g_n' = 0
    /\ g_backoff' = 1
    /\ g_sleeps' = <<>>
    /\ g_last' = NoOutcome
    /\ g_resp' = NoResp

\* The wrapper is not touched.
NoGet == UNCHANGED <<s_ops, g_i, g_n, g_backoff, g_sleeps, g_last, g_resp>>

\* time.sleep(backoff); backoff *= 2; and the next iteration, or the end of
\* the loop and return requests.Response().
RetryLater ==
    /\ g_sleeps' = Append(g_sleeps, g_backoff)
    /\ g_backoff' = g_backoff * 2
    /\ g_i' = g_i + 1
    /\ IF g_i + 1 < retries
       THEN s_pc' = "get" /\ g_resp' = g_resp
       ELSE s_pc' = "after" /\ g_resp' = Sentinel

\* return resp, or raise e.
HandBack(r) ==
    /\ s_pc' = "after"
    /\ g_resp' = r
    /\ UNCHANGED <<g_i, g_backoff, g_sleeps>>

\* What a request leaves alone.
RequestFrame ==
    UNCHANGED <<user_agent, tickers_file, text_cache, meta_files, cik_cache, n_calls,
                live_written, live_text, unreadable, refetches, s_obj, s_ticker, s_cik,
                s_feed, s_filing, s_lookup, s_ops, s_result>>

\* SECIngestor._requests_get (ingest_sec.py 31-52): one iteration of its loop.
IngestorGet ==
    /\ UNCHANGED not_svars
    /\ s_obj = "ingestor"
    /\ s_pc = "get"
    /\ RequestFrame
    /\ s_trace' = Append(s_trace, CurrentUrl)
    /\ g_n' = g_n + 1
    /\ \E o \in Outcomes :
        /\ g_last' = o
        /\ IF ~o.exc
           THEN IF IngestorRetries(o.status)
                THEN RetryLater
                ELSE HandBack(Received(o.status))
           ELSE IF LastAttempt(g_i)
                THEN HandBack(Raised)
                ELSE RetryLater

\* SecService._requests_get (sec_edgar.py 17-34): one iteration of its loop.
ServiceGet ==
    /\ UNCHANGED not_svars
    /\ s_obj = "service"
    /\ s_pc = "get"
    /\ RequestFrame
    /\ s_trace' = Append(s_trace, CurrentUrl)
    /\ g_n' = g_n + 1
    /\ \E o \in Outcomes :
        /\ g_last' = o
        /\ IF ~o.exc
           THEN IF ServiceRetries(o.status)
                THEN RetryLater
                ELSE HandBack(Received(o.status))
           ELSE RetryLater

----------------------------------------------------------------------------
(* SECIngestor.get_latest_filing_text                                      *)

\* The search of a ticker table: val.get("ticker") == ticker, ticker upper-cased.
ResolvesMut(t, table) == TRUE
Resolves(t, table) == Upper(t) \in table

\* os.path.exists(cache_text_path)
CacheExistsMut(file) == FALSE
CacheExists(file) == file.exists

\* The cache lookup, as it shows in the trace of the call.
LookupTraceMut(tr) == tr
LookupTrace(tr) == Append(tr, "cache_lookup")

\* How the writes of lines 218-231 can go: both files written; a failure
\* before the text file is opened; a failure after it was opened (and
\* truncated) and before all of it was written; the text file written and the
\* metadata file not.
WriteOutcomes == {"ok", "fail_before", "fail_text", "fail_meta"}

\* A new call starts: the state of the previous call is dropped.
NewCall(obj, tk) ==
    /\ n_calls < MaxCalls
    /\ n_calls' = n_calls + 1
    /\ s_obj' = obj
    /\ s_ticker' = tk
    /\ s_feed' = <<>>
    /\ s_filing' = NoFiling
    /\ s_lookup' = NoLookup
    /\ s_trace' = <<>>

\* The call returns r.
Finish(r) ==
    /\ s_pc' = "idle"
    /\ s_result' = r

IngestorError(w) == IngestorFailure("error", w)

\* An exception left get_latest_filing_text: the call returned nothing.
IngestorRaised(e) == IngestorFailure("raised", e)

\* Lines 106-119 with _get_cik lines 54-80: the user agent test, the table on
\* disk (missing, unreadable, or searched), then the directory or the
\* submissions request.
IngestorStart ==
    /\ UNCHANGED not_svars
    /\ s_pc = "idle"
    /\ \E tk \in Tickers, readOk \in BOOLEAN :
        /\ NewCall("ingestor", tk)
        /\ IF ~user_agent
           THEN /\ Finish(IngestorFailure("warning", "SEC_USER_AGENT not set"))
                /\ s_cik' = "none"
                /\ s_ops' = <<>>
                /\ g_resp' = NoResp
                /\ UNCHANGED <<g_i, g_n, g_backoff, g_sleeps, g_last>>
           ELSE /\ s_result' = NoResult
                /\ IF tickers_file /\ readOk /\ Resolves(tk, Directory)
                   THEN /\ s_cik' = CikOf(Upper(tk))
                        /\ StartFirstGet("sub")
                   ELSE /\ s_cik' = "none"
                        /\ StartFirstGet("dir")
    /\ UNCHANGED <<user_agent, tickers_file, text_cache, meta_files, cik_cache,
                   live_written, live_text, unreadable, refetches>>

\* _get_cik lines 84-99 and get_latest_filing_text lines 113-122: the
\* directory response; the table is saved and searched again.
IngestorAfterDirectory ==
    /\ UNCHANGED not_svars
    /\ s_obj = "ingestor" /\ s_pc = "after" /\ CurrentUrl = "dir"
    /\ tickers_file' = (tickers_file \/ IsOk(g_resp))
    /\ IF IsOk(g_resp) /\ Resolves(s_ticker, Directory)
       THEN /\ s_cik' = CikOf(Upper(s_ticker))
            /\ StartGet("sub")
            /\ UNCHANGED s_result
       ELSE /\ Finish(IngestorError("Could not resolve CIK"))
            /\ NoGet
            /\ UNCHANGED s_cik
    /\ UNCHANGED <<user_agent, text_cache, meta_files, cik_cache, n_calls,
                   live_written, live_text, unreadable, refetches, s_obj, s_ticker,
                   s_feed, s_filing, s_lookup, s_trace>>

\* Lines 124-158: the submissions response, filings = ...get("recent", {}),
\* and the scan of the feed.
IngestorAfterSubmissions ==
    /\ UNCHANGED not_svars
    /\ s_obj = "ingestor" /\ s_pc = "after" /\ CurrentUrl = "sub"
    /\ UNCHANGED <<user_agent, tickers_file, text_cache, meta_files, cik_cache,
                   n_calls, live_written, live_text, unreadable, refetches, s_obj, s_ticker,
                   s_cik, s_lookup, s_trace>>
    /\ NoGet
    /\ IF ~IsOk(g_resp)
       THEN /\ Finish(IngestorError(IF g_resp = Raised
                                     THEN "Error fetching submissions"
                                     ELSE "Failed to fetch submissions"))
            /\ UNCHANGED <<s_feed, s_filing>>
       ELSE \E feed \in Feeds \cup MalformedFeeds :
            /\ s_feed' = <<feed>>
            /\ IF ~feed.recent
               THEN /\ Finish(IngestorError("No filings found"))
                    /\ UNCHANGED s_filing
               ELSE IF IngestorScanRaises(feed)
               THEN /\ Finish(IngestorRaised("IndexError"))
                    /\ UNCHANGED s_filing
               ELSE /\ s_filing' = IngestorSelect(feed)
                    /\ s_pc' = "scanned"
                    /\ UNCHANGED s_result

\* Lines 160-191: the not-found test and the cache lookup; filings is not
\* read again.
IngestorAfterScan ==
    /\ UNCHANGED not_svars
    /\ s_obj = "ingestor" /\ s_pc = "scanned"
    /\ UNCHANGED <<user_agent, tickers_file, text_cache, meta_files, cik_cache,
                   n_calls, live_written, live_text, s_obj, s_ticker, s_cik, s_filing>>
    /\ s_feed' = <<>>
    /\ IF s_filing.index = 0
       THEN /\ Finish(IngestorFailure("not_found", "No 10-K/20-F/40-F found"))
            /\ NoGet
            /\ UNCHANGED <<s_lookup, s_trace, unreadable, refetches>>
       ELSE \E readOk \in BOOLEAN :
            LET key == KeyOf(s_ticker, s_filing.accession) IN
            /\ s_trace' = LookupTrace(s_trace)
            /\ s_lookup' = [done |-> TRUE, key |-> key,
                            existed |-> text_cache[key].exists,
                            live |-> live_written[key],
                            readable |-> text_cache[key].exists /\ readOk]
            /\ IF CacheExists(text_cache[key]) /\ readOk
               THEN /\ Finish(IngestorResult("success", "cache",
                                             text_cache[key].text))
                    /\ NoGet
                    /\ UNCHANGED <<unreadable, refetches>>
               ELSE /\ StartGet("doc")
                    /\ UNCHANGED s_result
                    /\ unreadable' =
                         [unreadable EXCEPT ![key] =
                            @ \/ (live_written[key] /\ text_cache[key].exists)]
                    /\ refetches' =
                         [refetches EXCEPT ![key] =
                            IF live_written[key] THEN @ + 1 ELSE @]

\* Lines 193-241: the document response, the extraction, the two writes.
IngestorAfterDocument ==
    /\ UNCHANGED not_svars
    /\ s_obj = "ingestor" /\ s_pc = "after" /\ CurrentUrl = "doc"
    /\ NoGet
    /\ UNCHANGED <<user_agent, tickers_file, cik_cache, n_calls, unreadable,
                   refetches, s_obj, s_ticker, s_cik, s_feed, s_filing,
                   s_lookup,
                   s_trace>>
    /\ IF ~IsOk(g_resp)
       THEN /\ Finish(IngestorError(IF g_resp = Raised
                                     THEN "Error processing filing"
                                     ELSE "Failed to download filing HTML"))
            /\ UNCHANGED <<text_cache, meta_files, live_written, live_text>>
       ELSE \E n \in TextLens, w \in WriteOutcomes, m \in TextLens :
            LET key == s_lookup.key
                clean_text == FullText(n)
            IN
            CASE w = "ok" ->
                    /\ text_cache' = [text_cache EXCEPT ![key] = FileOf(clean_text)]
                    /\ meta_files' = [meta_files EXCEPT ![key] = TRUE]
                    /\ live_written' = [live_written EXCEPT ![key] = TRUE]
                    /\ live_text' = [live_text EXCEPT
                                       ![key] = Prefix(clean_text, ReturnLimit)]
                    /\ Finish(IngestorResult("success", "live_sec",
                                             Prefix(clean_text, ReturnLimit)))
              [] w = "fail_before" ->
                    /\ UNCHANGED <<text_cache, meta_files, live_written, live_text>>
                    /\ Finish(IngestorError("Error processing filing"))
              [] w = "fail_text" ->
                    /\ m < n \/ m = 0
                    /\ text_cache' = [text_cache EXCEPT
                                        ![key] = FileOf(Prefix(clean_text, m))]
                    /\ UNCHANGED <<meta_files, live_written, live_text>>
                    /\ Finish(IngestorError("Error processing filing"))
              [] w = "fail_meta" ->
                    /\ text_cache' = [text_cache EXCEPT ![key] = FileOf(clean_text)]
                    /\ live_written' = [live_written EXCEPT ![key] = TRUE]
                    /\ live_text' = [live_text EXCEPT ![key] = NoText]
                    /\ UNCHANGED meta_files
                    /\ Finish(IngestorError("Error processing filing"))

----------------------------------------------------------------------------
(* SecService.get_latest_10k                                               *)

\* Lines 36-47 and 62-69: the in-memory table, then the directory or the
\* submissions request.
ServiceStart ==
    /\ UNCHANGED not_svars
    /\ s_pc = "idle"
    /\ \E tk \in Tickers :
        /\ NewCall("service", tk)
        /\ s_result' = NoResult
        /\ IF Upper(tk) \in cik_cache
           THEN s_cik' = CikOf(Upper(tk)) /\ StartFirstGet("sub")
           ELSE s_cik' = "none" /\ StartFirstGet("dir")
    /\ UNCHANGED <<user_agent, tickers_file, text_cache, meta_files, cik_cache,
                   live_written, live_text, unreadable, refetches>>

\* get_cik lines 46-58 and get_latest_10k lines 64-69.
ServiceAfterDirectory ==
    /\ UNCHANGED not_svars
    /\ s_obj = "service" /\ s_pc = "after" /\ CurrentUrl = "dir"
    /\ IF IsOk(g_resp) /\ Resolves(s_ticker, Directory)
       THEN /\ cik_cache' = cik_cache \cup {Upper(s_ticker)}
            /\ s_cik' = CikOf(Upper(s_ticker))
            /\ StartGet("sub")
            /\ UNCHANGED s_result
       ELSE /\ Finish(ServiceResult(404, "Ticker not found or CIK lookup failed"))
            /\ NoGet
            /\ UNCHANGED <<s_cik, cik_cache>>
    /\ UNCHANGED <<user_agent, tickers_file, text_cache, meta_files, n_calls,
                   live_written, live_text, unreadable, refetches, s_obj, s_ticker,
                   s_feed, s_filing, s_lookup, s_trace>>

\* Lines 71-105: the submissions response and the scan for the latest 10-K.
ServiceAfterSubmissions ==
    /\ UNCHANGED not_svars
    /\ s_obj = "service" /\ s_pc = "after" /\ CurrentUrl = "sub"
    /\ UNCHANGED <<user_agent, tickers_file, text_cache, meta_files, cik_cache,
                   n_calls, live_written, live_text, unreadable, refetches, s_obj, s_ticker,
                   s_cik, s_feed, s_lookup, s_trace>>
    /\ IF ~IsOk(g_resp)
       THEN /\ Finish(ServiceResult(502, "SEC Submissions API error"))
            /\ NoGet
            /\ UNCHANGED s_filing
       ELSE \E feed \in Feeds :
            LET sel == SelectFiling(feed, ServiceForms) IN
            /\ s_filing' = sel
            /\ IF sel.index = 0
               THEN Finish(ServiceResult(404, "No 10-K filings found")) /\ NoGet
               ELSE StartGet("idx") /\ UNCHANGED s_result

\* Lines 102-124: the index.json response and the choice of the first
\* .htm/.html item.
ServiceAfterIndex ==
    /\ UNCHANGED not_svars
    /\ s_obj = "service" /\ s_pc = "after" /\ CurrentUrl = "idx"
    /\ UNCHANGED <<user_agent, tickers_file, text_cache, meta_files, cik_cache,
                   n_calls, live_written, live_text, unreadable, refetches, s_obj, s_ticker,
                   s_cik, s_feed, s_filing, s_lookup, s_trace>>
    /\ IF ~IsOk(g_resp)
       THEN Finish(ServiceResult(502, "Failed to fetch filing index.json")) /\ NoGet
       ELSE \E hasHtml \in BOOLEAN :
            IF hasHtml
            THEN StartGet("doc") /\ UNCHANGED s_result
            ELSE Finish(ServiceResult(404, "No HTML document found")) /\ NoGet

\* Lines 126-144: the document response.
ServiceAfterDocument ==
    /\ UNCHANGED not_svars
    /\ s_obj = "service" /\ s_pc = "after" /\ CurrentUrl = "doc"
    /\ UNCHANGED <<user_agent, tickers_file, text_cache, meta_files, cik_cache,
                   n_calls, live_written, live_text, unreadable, refetches, s_obj, s_ticker,
                   s_cik, s_feed, s_filing, s_lookup, s_trace>>
    /\ NoGet
    /\ IF ~IsOk(g_resp)
       THEN Finish(ServiceResult(502, "Failed to download 10-K HTML"))
       ELSE \E n \in TextLens :
            Finish([ServiceResult(200, "none") EXCEPT !.source = "live",
                                                      !.text = FullText(n)])

\* SECIngestor.__init__ and SecService.__init__, on an empty data directory.
InitSec ==
    /\ user_agent \in BOOLEAN
    /\ tickers_file = FALSE
    /\ text_cache = [k \in Keys |-> NoFile]
    /\ meta_files = [k \in Keys |-> FALSE]
    /\ cik_cache = {}
    /\ n_calls = 0
    /\ live_written = [k \in Keys |-> FALSE]
    /\ live_text = [k \in Keys |-> NoText]
    /\ unreadable = [k \in Keys |-> FALSE]
    /\ refetches = [k \in Keys |-> 0]
    /\ s_obj = "none"
    /\ s_pc = "idle"
    /\ s_ticker = "none"
    /\ s_cik = "none"
    /\ s_feed = <<>>
    /\ s_filing = NoFiling
    /\ s_lookup = NoLookup
    /\ s_trace = <<>>
    /\ s_ops = <<>>
    /\ s_result = NoResult
    /\ g_i = 0
    /\ g_n = 0
    /\ g_backoff = 0
    /\ g_sleeps = <<>>
    /\ g_last = NoOutcome
    /\ g_resp = NoResp

NextSec ==
    \/ IngestorStart \/ IngestorGet \/ IngestorAfterDirectory
    \/ IngestorAfterSubmissions \/ IngestorAfterScan \/ IngestorAfterDocument
    \/ ServiceStart \/ ServiceGet \/ ServiceAfterDirectory
    \/ ServiceAfterSubmissions \/ ServiceAfterIndex \/ ServiceAfterDocument

----------------------------------------------------------------------------
(* XBRLMetrics.get_company_facts                                           *)

\* Calls of get_company_facts for one ticker in one run.
MaxFactsCalls == 3

\* Moves of the clock in one run.
MaxTicks == 4

\* How far the clock moves between two steps, in seconds.
ClockSteps == {1, 86399, 86400}

\* if (time.time() - mtime) < 86400
TTL == 86400
FreshMut(age) == age <= TTL
Fresh(age) == age < TTL

\* The companyfacts documents the server can send.
FactsDocs == {"facts_a", "facts_b"}

\* What self._get_cik(ticker) gives: a CIK, None, or an exception of the
\* unguarded read of company_tickers.json (lines 26-31).
CikOutcomes == {"cik", "none", "raise"}

\* What requests.get(url) and resp.json() give: a document with status 200,
\* another status, or an exception.
FactsOutcomes == {"ok", "status", "raise"}

NoFacts == [exists |-> FALSE, mtime |-> 0, doc |-> "none"]
NoSeen == [checked |-> FALSE, existed |-> FALSE, age |-> 0, doc |-> "none"]
\* A result: how the call ended, the document returned, and when.
NoFactsResult == [kind |-> "none", doc |-> "none", at |-> 0]
FactsResult(k, d) == [kind |-> k, doc |-> d, at |-> x_now]

InitFacts ==
    /\ x_now = 0
    /\ x_ticks = 0
    /\ x_cache = NoFacts
    /\ x_pc = "idle"
    /\ x_calls = 0
    /\ x_seen = NoSeen
    /\ x_requested = FALSE
    /\ x_result = NoFactsResult

\* Time passes.
ClockTick ==
    /\ UNCHANGED not_xvars
    /\ x_ticks < MaxTicks
    /\ x_ticks' = x_ticks + 1
    /\ \E d \in ClockSteps : x_now' = x_now + d
    /\ UNCHANGED <<x_cache, x_pc, x_calls, x_seen, x_requested, x_result>>

\* Lines 54-65: the CIK, then the cache check with its 1 day TTL.
FactsStart ==
    /\ UNCHANGED not_xvars
    /\ x_pc = "idle"
    /\ x_calls < MaxFactsCalls
    /\ x_calls' = x_calls + 1
    /\ x_requested' = FALSE
    /\ UNCHANGED <<x_now, x_ticks, x_cache>>
    /\ \E c \in CikOutcomes :
        IF c = "raise"
        THEN /\ x_result' = FactsResult("raised", "none")
             /\ x_seen' = NoSeen
             /\ x_pc' = "idle"
        ELSE IF c = "none"
        THEN /\ x_result' = FactsResult("ValueError", "none")
             /\ x_seen' = NoSeen
             /\ x_pc' = "idle"
        ELSE /\ x_seen' = [checked |-> TRUE, existed |-> x_cache.exists,
                           age |-> x_now - x_cache.mtime, doc |-> x_cache.doc]
             /\ IF x_cache.exists /\ Fresh(x_now - x_cache.mtime)
                THEN /\ x_result' = FactsResult("cached", x_cache.doc)
                     /\ x_pc' = "idle"
                ELSE /\ x_result' = NoFactsResult
                     /\ x_pc' = "download"

\* Lines 68-77: the download, the status test, the write of the cache file.
FactsDownload ==
    /\ UNCHANGED not_xvars
    /\ x_pc = "download"
    /\ x_pc' = "idle"
    /\ x_requested' = TRUE
    /\ UNCHANGED <<x_now, x_ticks, x_calls, x_seen>>
    /\ \E o \in FactsOutcomes, d \in FactsDocs :
        IF o = "ok"
        THEN /\ x_cache' = [exists |-> TRUE, mtime |-> x_now, doc |-> d]
             /\ x_result' = FactsResult("live", d)
        ELSE /\ UNCHANGED x_cache
             /\ x_result' = FactsResult(IF o = "status" THEN "Exception" ELSE "raised",
                                        "none")

NextFacts == ClockTick \/ FactsStart \/ FactsDownload

----------------------------------------------------------------------------
(* XBRLMetrics.extract_metrics and the /ai/analyze/xbrl flow               *)

\* Values: None, a number n/d, or the exception an operation raises.
None == [k |-> "none", n |-> 0, d |-> 1]
Num(v) == [k |-> "num", n |-> v, d |-> 1]
Raises(e) == [k |-> e, n |-> 0, d |-> 1]

\* Python truth of a value: not None and not 0.
Truthy(v) == v.k = "num" /\ v.n # 0

\* a / b and a - b on values as Python evaluates them.
Div(a, b) ==
    IF a.k # "num" \/ b.k # "num" THEN Raises("TypeError")
    ELSE IF b.n = 0 THEN Raises("ZeroDivisionError")
    ELSE [k |-> "num", n |-> a.n, d |-> b.n]
Sub(a, b) ==
    IF a.k # "num" \/ b.k # "num" THEN Raises("TypeError")
    ELSE Num(a.n - b.n)

\* The fiscal years a series can hold.
Years == 2020..2023

\* def extract_metrics(self, ticker, years: int = 4)
DefaultYears == 4

\* Revenue of a year when present: zero, negative, or one of the series
\* 100, 110, 120, 133.1 in tenths.
EndRevenues == {Num(0), Num(0 - 1000), Num(1000), Num(1331)}
RevenuesOf(y) == IF y = 2021 THEN {Num(1100)}
                 ELSE IF y = 2022 THEN {Num(1200)}
                 ELSE EndRevenues

RevenueSeries == {s \in [Years -> EndRevenues \cup {Num(1100), Num(1200), None}] :
                    \A y \in Years : s[y] \in RevenuesOf(y) \cup {None}}

\* What the other series hold for a year: absent, zero, or a number.
ItemValues == {None, Num(0), Num(4)}

\* What the capex series holds for a year: absent, or a number.
CapexValues == {None, Num(3)}

\* series.get(y), and series.get(y, 0)
Get(series, y) == IF y \in DOMAIN series THEN series[y] ELSE None
GetOr0(v) == IF v = None THEN Num(0) ELSE v

\* sorted(series_data["revenue"].keys(), reverse=True)
RECURSIVE SortedDesc(_)
SortedDesc(S) ==
    IF S = {} THEN <<>>
    ELSE LET m == CHOOSE y \in S : \A z \in S : z <= y
         IN <<m>> \o SortedDesc(S \ {m})

\* rev_years[:years]
TargetYears(series, years) ==
    LET all == SortedDesc({y \in DOMAIN series : series[y] # None})
    IN SubSeq(all, 1, Min(years, Len(all)))

\* Lines 163-165.
NetMarginMut(ni, rev) == IF ni # None /\ rev # None THEN Div(ni, rev) ELSE None
NetMargin(ni, rev) == IF ni # None /\ Truthy(rev) THEN Div(ni, rev) ELSE None
Fcf(ocf, capex) == IF ocf # None THEN Sub(ocf, capex) ELSE None
Roe(ni, equity) == IF ni # None /\ Truthy(equity) THEN Div(ni, equity) ELSE None

\* (end_rev / start_rev) ** (1/3) - 1 in percent, rounded down:
\* the k with (1 + k/100)^3 <= end/start < (1 + (k+1)/100)^3.
Cube(a) == a * a * a
MaxPercent == 11
CagrPercent(start, end) ==
    CHOOSE k \in (0 - 100)..MaxPercent :
        /\ Cube(100 + k) * start <= end * 1000000
        /\ Cube(100 + k + 1) * start > end * 1000000

\* start_rev > 0 and end_rev > 0
BothPositiveMut(a, b) == a.n >= 0 /\ b.n >= 0
BothPositive(a, b) == a.n > 0 /\ b.n > 0

\* Lines 178-194: None unless both years have positive revenue; an exception
\* of the power expression is swallowed by the try.
Cagr(series, targets) ==
    IF Len(targets) = 0 THEN None
    ELSE LET latest == targets[1]
             start_rev == Get(series, latest - 3)
             end_rev == Get(series, latest)
         IN IF start_rev # None /\ end_rev # None /\ BothPositive(start_rev, end_rev)
            THEN IF Div(end_rev, start_rev).k # "num" THEN None
                 ELSE [k |-> "num", n |-> CagrPercent(start_rev.n, end_rev.n),
                       d |-> 100]
            ELSE None

NoRow == [year |-> 0, revenue |-> None, net_income |-> None,
          operating_cash_flow |-> None, capex |-> None, equity |-> None,
          net_margin |-> None, fcf |-> None, roe |-> None]

\* The shape of a value, as AIAnalyst.analyze's model of metrics has it.
ShapeOf(v) == IF v = None THEN "none" ELSE "num"

NoAi == [revenue |-> "absent", net_margin |-> "absent"]

InitExtract ==
    /\ e_rev \in RevenueSeries
    /\ e_pc = "start"
    /\ e_error = FALSE
    /\ e_targets = <<>>
    /\ e_i = 0
    /\ e_row = NoRow
    /\ e_raised = "none"
    /\ e_ai = NoAi
    /\ e_fmt_fail = FALSE
    /\ e_cagr = None
    /\ e_http = "none"

\* Lines 83-152: the facts, the series, the target years.
ExtractStart ==
    /\ UNCHANGED not_evars
    /\ e_pc = "start"
    /\ \E factsOk \in BOOLEAN :
        IF factsOk
        THEN /\ e_targets' = TargetYears(e_rev, DefaultYears)
             /\ e_pc' = "rows"
             /\ UNCHANGED e_error
        ELSE /\ e_error' = TRUE
             /\ e_pc' = "done"
             /\ UNCHANGED e_targets
    /\ UNCHANGED <<e_rev, e_i, e_row, e_raised, e_ai, e_fmt_fail, e_cagr, e_http>>

\* Lines 155-175: one pass of the loop over target_years.
ExtractRow ==
    /\ UNCHANGED not_evars
    /\ e_pc = "rows"
    /\ e_i < Len(e_targets)
    /\ \E ni \in ItemValues, ocf \in ItemValues, cx \in CapexValues,
          equity \in ItemValues :
        LET y == e_targets[e_i + 1]
            rev == Get(e_rev, y)
            capex == GetOr0(cx)
            row == [year |-> y, revenue |-> rev, net_income |-> ni,
                    operating_cash_flow |-> ocf, capex |-> capex,
                    equity |-> equity,
                    net_margin |-> NetMargin(ni, rev),
                    fcf |-> Fcf(ocf, capex),
                    roe |-> Roe(ni, equity)]
            failed == {f \in {"net_margin", "fcf", "roe"} :
                         row[f].k \notin {"none", "num"}}
        IN
        /\ e_row' = row
        /\ IF failed # {}
           THEN /\ e_raised' = row[CHOOSE f \in failed : TRUE].k
                /\ e_pc' = "done"
                /\ UNCHANGED <<e_i, e_ai, e_fmt_fail>>
           ELSE /\ e_i' = e_i + 1
                /\ e_ai' = IF e_i = 0
                           THEN [revenue |-> ShapeOf(rev),
                                 net_margin |-> ShapeOf(row.net_margin)]
                           ELSE e_ai
                /\ e_fmt_fail' = (e_fmt_fail \/ None \in {row.net_income,
                                                         row.net_margin, row.fcf})
                /\ UNCHANGED <<e_raised, e_pc>>
    /\ UNCHANGED <<e_rev, e_error, e_targets, e_cagr, e_http>>

\* Lines 177-196: the CAGR and the return.
ExtractCagr ==
    /\ UNCHANGED not_evars
    /\ e_pc = "rows"
    /\ e_i = Len(e_targets)
    /\ e_cagr' = Cagr(e_rev, e_targets)
    /\ e_pc' = "done"
    /\ UNCHANGED <<e_rev, e_error, e_targets, e_i, e_row, e_raised, e_ai,
                   e_fmt_fail, e_http>>

\* The metrics dict analyze_xbrl hands to AIAnalyst.analyze (lines 86-92).
AiMetrics ==
    [k \in MetricKeys |->
        IF k = "revenue_cagr_3yr" THEN ShapeOf(e_cagr) ELSE e_ai[k]]

\* analyze_xbrl after extract_metrics (src/main.py lines 69-117): the error
\* entry, the years list, context_str, and the call of analyst.analyze up to
\* the choice of a provider.
AnalyzeXbrl ==
    /\ UNCHANGED not_evars
    /\ e_pc = "done"
    /\ e_pc' = "served"
    /\ e_http' =
         IF e_raised # "none" THEN "unhandled"
         ELSE IF e_error THEN "500 Metrics fetch failed"
         ELSE IF Len(e_targets) = 0 \/ e_fmt_fail THEN "400 Data processing failed"
         ELSE IF SummaryRaises(AiMetrics) THEN "500 AI_FAILED"
         ELSE "provider"
    /\ UNCHANGED <<e_rev, e_error, e_targets, e_i, e_row, e_raised, e_ai,
                   e_fmt_fail, e_cagr>>

NextExtract == ExtractStart \/ ExtractRow \/ ExtractCagr \/ AnalyzeXbrl

----------------------------------------------------------------------------
(* FinancialMetrics.calculate_metrics                                      *)

\* Rows of one ticker in financials_sec.csv.
MaxRows == 4

\* The source columns get_series looks for.
Columns == {"Revenue", "Net Income", "Operating Income", "Shareholders Equity",
            "Operating Cash Flow", "Capital Expenditure"}

\* The Revenue cells of the rows, in the order of sort_values('Year'): the
\* first and the last row vary, the rows between them hold 110 and 120 (in
\* tenths).
FirstRevenues == {Num(0), Num(0 - 1000), Num(1000)}
LastRevenues == {Num(0), Num(1000), Num(1331)}
RevenueAt(i, n) == IF i = n THEN LastRevenues
                   ELSE IF i = 1 THEN FirstRevenues
                   ELSE IF i = 2 THEN {Num(1100)}
                   ELSE {Num(1200)}
RevenueColumns ==
    UNION {{r \in [1..n -> FirstRevenues \cup LastRevenues \cup {Num(1100), Num(1200)}] :
              \A i \in 1..n : r[i] \in RevenueAt(i, n)} : n \in 0..MaxRows}

\* The cells of the last row in the other columns.
NetIncomeCell == Num(4)
OperatingIncomeCell == Num(6)
EquityCells == {Num(0), Num(8)}
CashFlowCell == Num(5)
CapexCell == Num(0 - 3)

\* The data file: missing, not readable as CSV, or read; the Year cell of the
\* last row: no Year column, a year, or an empty cell (NaN).
FileStates == {"absent", "unreadable", "ok"}
YearCells == {"absent", "ok", "nan"}

CsvInputs == [file : FileStates, cols : SUBSET Columns, year : YearCells,
              revenue : RevenueColumns, equity : EquityCells]

\* get_series(col_name): the column, or an empty Series.
GetSeries(in, col, cells) == IF col \in in.cols THEN cells ELSE <<>>

\* series.iloc[-1] and series.iloc[-4]
ILoc(series, back) ==
    IF Len(series) < back THEN Raises("IndexError")
    ELSE series[Len(series) - back + 1]

\* a / b on numpy scalars: a zero divisor gives inf or nan, not an exception.
DivNp(a, b) ==
    IF a.k # "num" THEN a
    ELSE IF b.k # "num" THEN b
    ELSE IF b.n = 0 THEN [k |-> IF a.n = 0 THEN "nan" ELSE "inf", n |-> 0, d |-> 1]
    ELSE [k |-> "num", n |-> a.n, d |-> b.n]

\* abs(v)
Abs(v) == IF v.k = "num" /\ v.n < 0 THEN Num(0 - v.n) ELSE v

\* den != 0
NonZeroMut(den) == TRUE
NonZero(den) == den.n # 0

\* (num / den) if den != 0 else 0: the condition is evaluated first.
GuardedRatio(num, den) ==
    IF den.k # "num" THEN den
    ELSE IF NonZero(den) THEN DivNp(num, den)
    ELSE Num(0)

\* try: v = <expression>  except: v = 0.0
IsValue(v) == v.k \in {"num", "inf", "nan"}
OrZeroMut(v) == v
OrZero(v) == IF IsValue(v) THEN v ELSE Num(0)

\* a ** p for a natural p.
RECURSIVE Pow(_, _)
Pow(a, p) == IF p = 0 THEN 1 ELSE a * Pow(a, p - 1)

\* (end / start) ** (1/period) - 1 in percent, rounded down.
MaxGrowth == 40
GrowthPercent(start, end, period) ==
    CHOOSE k \in (0 - 100)..MaxGrowth :
        /\ Pow(100 + k, period) * start <= end * Pow(100, period)
        /\ Pow(100 + k + 1, period) * start > end * Pow(100, period)

\* revenue.iloc[-4] with 4 rows or more, else revenue.iloc[0]: how far back
\* from the end the start of the period lies.
StartBackMut(n) == n - 1
StartBack(n) == IF n >= 4 THEN 4 ELSE n

\* Lines 100-119.
CsvCagr(revenue) ==
    LET n == Len(revenue)
        start_rev == ILoc(revenue, StartBack(n))
        end_rev == ILoc(revenue, 1)
        period == IF n >= 4 THEN 3 ELSE n - 1
    IN IF n > 1 /\ BothPositive(start_rev, end_rev)
       THEN [k |-> "num", n |-> GrowthPercent(start_rev.n, end_rev.n, period),
             d |-> 100]
       ELSE Num(0)

NoMetrics == [escaped |-> "none", error |-> "none", net_margin |-> None,
              operating_margin |-> None, roe |-> None, fcf |-> None,
              revenue_cagr_3yr |-> None, revenue |-> None, net_income |-> None]

\* return {"error": ..., "metrics": {}}
ErrorResult(msg) == [NoMetrics EXCEPT !.error = msg]

\* Lines 60-131, inside the try of line 32: the six series, the five metrics
\* each in its own try, and the returned dict.
Metrics(in) ==
    LET revenue == GetSeries(in, "Revenue", in.revenue)
        rows == Len(in.revenue)
        Cell(col, v) == GetSeries(in, col, [i \in 1..rows |-> v])
        net_income == Cell("Net Income", NetIncomeCell)
        op_income == Cell("Operating Income", OperatingIncomeCell)
        equity == Cell("Shareholders Equity", in.equity)
        op_cash_flow == Cell("Operating Cash Flow", CashFlowCell)
        capex == Cell("Capital Expenditure", CapexCell)
        net_margin == OrZero(GuardedRatio(ILoc(net_income, 1), ILoc(revenue, 1)))
        op_margin == OrZero(GuardedRatio(ILoc(op_income, 1), ILoc(revenue, 1)))
        roe == OrZero(GuardedRatio(ILoc(net_income, 1), ILoc(equity, 1)))
        capex_val == IF Len(capex) > 0 THEN Abs(ILoc(capex, 1)) ELSE Num(0)
        fcf == OrZero(IF ILoc(op_cash_flow, 1).k # "num" THEN ILoc(op_cash_flow, 1)
                      ELSE Sub(ILoc(op_cash_flow, 1), capex_val))
        cagr == CsvCagr(revenue)
        fields == <<net_margin, op_margin, roe, fcf, cagr>>
    IN IF \E i \in 1..Len(fields) : ~IsValue(fields[i])
       THEN ErrorResult((CHOOSE v \in {fields[i] : i \in 1..Len(fields)} : ~IsValue(v)).k)
       ELSE IF in.year = "nan" THEN ErrorResult("ValueError")
       ELSE [escaped |-> "none", error |-> "none",
             net_margin |-> net_margin, operating_margin |-> op_margin,
             roe |-> roe, fcf |-> fcf, revenue_cagr_3yr |-> cagr,
             revenue |-> IF Len(revenue) > 0 THEN ILoc(revenue, 1) ELSE Num(0),
             net_income |-> IF Len(net_income) > 0 THEN ILoc(net_income, 1)
                            ELSE Num(0)]

\* Lines 28-134.
Calculate(in) ==
    IF in.file = "absent" THEN ErrorResult("Financial data file not found")
    ELSE IF in.file = "unreadable" THEN ErrorResult("read_csv")
    ELSE IF Len(in.revenue) = 0 THEN ErrorResult("No financial data found")
    ELSE Metrics(in)

InitCsv ==
    /\ c_in \in CsvInputs
    /\ c_pc = "start"
    /\ c_out = NoMetrics

CalculateMetrics ==
    /\ UNCHANGED not_cvars
    /\ c_pc = "start"
    /\ c_pc' = "done"
    /\ c_out' = Calculate(c_in)
    /\ UNCHANGED c_in

NextCsv == CalculateMetrics

----------------------------------------------------------------------------
(* Forecaster.generate_forecast                                            *)

\* Rows of metrics_data["history"].
MaxHistory == 4

\* The first year of a history that has a Year column.
FirstYears == {2019, 2020}

\* What np.polyfit(X, y, 1) does on the columns: returns a slope and an
\* intercept, or raises.

\* What the revenue column of the history holds: the line y = 2x + 10, a
\* constant, the squares of the row numbers, or the line with its first cell
\* empty (NaN in the frame) or a text.
RevenueShapes == {"linear", "flat", "square", "nan", "text"}

\* metrics_data: no "history" key (rows -1) or a list of rows; whether the
\* rows have a column whose name contains "Revenue"; whether they have a
\* Year column.
ForecastInputs == [rows : (0 - 1)..MaxHistory, revenue : BOOLEAN, year : BOOLEAN,
                   first : FirstYears, shape : RevenueShapes]

\* if len(df) < 2
TooFewMut(n) == n < 1
TooFew(n) == n < 2

NoForecast == [kind |-> "none", method |-> "none", forecast_years |-> <<>>,
               forecast_revenue |-> <<>>, slope |-> None, escaped |-> "none"]

\* X: df['Year'].values, or np.arange(len(df)); row i counted from 1.
XAt(in, i) == IF in.year THEN in.first + i - 1 ELSE i - 1

\* y: df[rev_col].values.
YAt(in, i) ==
    CASE in.shape = "linear" -> Num(2 * XAt(in, i) + 10)
      [] in.shape = "flat" -> Num(50)
      [] in.shape = "square" -> Num(i * i)
      [] in.shape = "nan" -> IF i = 1 THEN [k |-> "nan", n |-> 0, d |-> 1]
                             ELSE Num(2 * XAt(in, i) + 10)
      [] in.shape = "text" -> IF i = 1 THEN [k |-> "str", n |-> 0, d |-> 1]
                              ELSE Num(2 * XAt(in, i) + 10)

\* X[-1]: the last year, or the last index of np.arange(len(df)).
LastX(in) == XAt(in, in.rows)

RECURSIVE SumTo(_, _)
\* The sum of f[1] .. f[n].
SumTo(f, n) == IF n = 0 THEN 0 ELSE f[n] + SumTo(f, n - 1)

\* np.polyfit(X, y, 1) raises on a column that is not numeric (TypeError in
\* y + 0.0) and on one that holds NaN (LinAlgError: SVD did not converge).
FitOf(in) ==
    IF \E i \in 1..in.rows : YAt(in, i).k = "str" THEN "TypeError"
    ELSE IF \E i \in 1..in.rows : YAt(in, i).k = "nan" THEN "LinAlgError"
    ELSE "ok"

\* The least-squares line through the rows, in exact fractions:
\* slope = sn / sd and slope * x + intercept = (sn * n * x + c) / (n * sd).
Polyfit(in) ==
    LET n == in.rows
        sx == SumTo([i \in 1..n |-> XAt(in, i)], n)
        sy == SumTo([i \in 1..n |-> YAt(in, i).n], n)
        sxy == SumTo([i \in 1..n |-> XAt(in, i) * YAt(in, i).n], n)
        sxx == SumTo([i \in 1..n |-> XAt(in, i) * XAt(in, i)], n)
        sn == n * sxy - sx * sy
        sd == n * sxx - sx * sx
    IN [sn |-> sn, sd |-> sd, c |-> sy * sd - sn * sx, n |-> n]

\* slope * x + intercept
Project(fit, x) == [k |-> "num", n |-> fit.sn * fit.n * x + fit.c, d |-> fit.n * fit.sd]

\* [last_x + 1, last_x + 2, last_x + 3]
HorizonMut(last) == <<last + 1, last + 2>>
Horizon(last) == <<last + 1, last + 2, last + 3>>

\* Lines 11-53.
Forecast(in) ==
    IF in.rows = 0 - 1 \/ in.rows = 0 THEN NoForecast
    ELSE IF ~in.revenue THEN NoForecast
    ELSE IF TooFew(in.rows) THEN NoForecast
    ELSE IF FitOf(in) # "ok" THEN NoForecast
    ELSE LET fit == Polyfit(in)
             future_X == Horizon(LastX(in))
         IN [kind |-> "forecast", method |-> "linear_regression",
             forecast_years |-> future_X,
             forecast_revenue |-> [j \in 1..Len(future_X) |-> Project(fit, future_X[j])],
             slope |-> [k |-> "num", n |-> fit.sn, d |-> fit.sd],
             escaped |-> "none"]

InitForecast ==
    /\ f_in \in ForecastInputs
    /\ f_pc = "start"
    /\ f_out = NoForecast

GenerateForecast ==
    /\ UNCHANGED not_fvars
    /\ f_pc = "start"
    /\ f_pc' = "done"
    /\ f_out' = Forecast(f_in)
    /\ UNCHANGED f_in

NextForecast == GenerateForecast

----------------------------------------------------------------------------
(* RiskAnalyst._extract_risk_section                                       *)

\* Text nodes of a parsed document.
MaxNodes == 3

\* text[start_idx:start_idx+50000] and text[:50000]
SliceCap == 50000

\* The strings of the document: running text without a marker, short or
\* long, "Item 1A. Risk Factors", "Item 1B." and "Item 2.".
Nodes == {[kind |-> "text", len |-> 3], [kind |-> "text", len |-> 30000],
          [kind |-> "item1a", len |-> 21], [kind |-> "item1b", len |-> 8],
          [kind |-> "item2", len |-> 7]}

RECURSIVE SeqsUpTo(_, _)
\* The sequences over S of length at most n.
SeqsUpTo(S, n) ==
    IF n = 0 THEN {<<>>}
    ELSE LET shorter == SeqsUpTo(S, n - 1)
         IN shorter \cup {Append(q, x) : q \in {p \in shorter : Len(p) = n - 1}, x \in S}

Documents == SeqsUpTo(Nodes, MaxNodes)

RECURSIVE Offset(_, _)
\* Where string i starts in soup.get_text(separator="\n"): the strings
\* before it, each followed by the separator.
Offset(doc, i) == IF i = 1 THEN 0 ELSE Offset(doc, i - 1) + doc[i - 1].len + 1

\* len(text)
TextLen(doc) == IF doc = <<>> THEN 0 ELSE Offset(doc, Len(doc)) + doc[Len(doc)].len

\* start_pattern.search(text): the strings that match Item 1A Risk Factors.
StartMatches(doc) == {i \in 1..Len(doc) : doc[i].kind = "item1a"}

\* end_pattern.search(text, start_idx): the strings at or after string from
\* that match Item 1B or Item 2.
EndFromMut(doc, from) == {i \in 1..Len(doc) : doc[i].kind \in {"item1b", "item2"}}
EndFrom(doc, from) == {i \in from..Len(doc) : doc[i].kind \in {"item1b", "item2"}}

First(S) == CHOOSE i \in S : \A j \in S : i <= j

\* text[a:b] as the offsets it covers.
Slice(doc, a, b) ==
    LET from == Min(a, TextLen(doc))
        to == Min(b, TextLen(doc))
    IN [from |-> from, to |-> IF to < from THEN from ELSE to, escaped |-> "none"]

NoSlice == [from |-> 0, to |-> 0, escaped |-> "none"]

\* Lines 17-38.
ExtractRiskSection(doc) ==
    IF StartMatches(doc) # {}
    THEN LET s == First(StartMatches(doc))
             start_idx == Offset(doc, s)
         IN IF EndFrom(doc, s) # {}
            THEN Slice(doc, start_idx, Offset(doc, First(EndFrom(doc, s))))
            ELSE Slice(doc, start_idx, start_idx + SliceCap)
    ELSE Slice(doc, 0, SliceCap)

\* One call of _extract_risk_section.
ExtractSection ==
    /\ UNCHANGED not_rvars
    /\ d_pc = "start"
    /\ d_pc' = "done"
    /\ d_out' = ExtractRiskSection(d_in)
    /\ UNCHANGED <<d_in, r_in, r_pc, r_out>>

----------------------------------------------------------------------------
(* RiskAnalyst.analyze_risk                                                *)

\* Sentences the splitter finds in a short risk section.
MaxSentences == 3

\* sentences = sentences[:200]
SentenceCap == 200

\* len(s) > 20
MinSentenceLen == 20

\* The lengths of the fragments re.split yields: all 21, all 20, or 5 and
\* 80 in turn.
LengthPatterns == {"long", "short", "mixed"}

LenOf(pattern, i) ==
    CASE pattern = "long" -> 21
      [] pattern = "short" -> 20
      [] pattern = "mixed" -> IF i % 2 = 1 THEN 5 ELSE 80

\* What the classifier gives for a sentence, in percent.
Distributions ==
    {[positive |-> 10, negative |-> 70, neutral |-> 20],
     [positive |-> 70, negative |-> 10, neutral |-> 20],
     [positive |-> 20, negative |-> 10, neutral |-> 70],
     [positive |-> 30, negative |-> 35, neutral |-> 35]}

\* The order of the classes in the list the pipeline returns per sentence.
LabelOrder == <<"positive", "negative", "neutral">>

\* top_n as the caller passes it (finbert_top_n of the request, default 15).
TopNs == {0 - 1, 0, 2, 15}

\* The fragments of a short risk section and what the model does on them:
\* the model loads or not, inference returns or raises, and the
\* distribution of a fragment is that of its position modulo 3.
ShortInputs ==
    [load : {"ok", "fail"}, infer : {"ok", "raises"}, raw : 0..MaxSentences,
     lens : LengthPatterns, clf : [0..2 -> Distributions], top_n : TopNs]

\* A risk section of more fragments than the cap.
LongInputs ==
    [load : {"ok"}, infer : {"ok"}, raw : {SentenceCap + 1},
     lens : {"long", "mixed"},
     clf : {f \in [0..2 -> Distributions] :
               /\ f[0].negative = 10 /\ f[0].positive = 70
               /\ f[1].negative = 35
               /\ f[2].negative \in {10, 70}},
     top_n : {0 - 1, 2}]

RiskInputs == ShortInputs \cup LongInputs

\* Line 47: the fragments longer than 20 characters, by their position.
KeepsMut(n) == n >= MinSentenceLen
Keeps(n) == n > MinSentenceLen
SplitSentences(in) ==
    SelectSeq([i \in 1..in.raw |-> i], LAMBDA i : Keeps(LenOf(in.lens, i)))

\* seq[:k]
Take(seq, k) ==
    IF k >= 0 THEN SubSeq(seq, 1, Min(k, Len(seq)))
    ELSE SubSeq(seq, 1, IF Len(seq) + k > 0 THEN Len(seq) + k ELSE 0)

RECURSIVE Argmax(_, _, _, _)
\* Lines 88-95: the scan for the predicted label, from item j on.
Argmax(scores, j, highest_score, predicted_label) ==
    IF j > Len(LabelOrder) THEN predicted_label
    ELSE IF scores[LabelOrder[j]] > highest_score
         THEN Argmax(scores, j + 1, scores[LabelOrder[j]], LabelOrder[j])
         ELSE Argmax(scores, j + 1, highest_score, predicted_label)

\* Lines 104-108.
Scored(in, i) ==
    [text |-> i, label |-> Argmax(in.clf[i % 3], 1, 0, "neutral"),
     score |-> in.clf[i % 3].negative]

\* scored_sentences.sort(key=score, reverse=True): stable, so equal scores
\* keep their order.
SortByScore(seq) ==
    LET n == Len(seq)
        key == SubSeq([i \in 1..n |-> seq[i].score], 1, n)
        \* the place of element i: after the higher scores and after the
        \* equal scores that came before it
        place == SubSeq([i \in 1..n |->
                     Cardinality({j \in 1..n : key[j] > key[i]})
                     + Cardinality({j \in 1..(i - 1) : key[j] = key[i]}) + 1], 1, n)
    IN SubSeq([r \in 1..n |-> seq[CHOOSE i \in 1..n : place[i] = r]], 1, n)

CountLabel(seq, l) == Cardinality({i \in 1..Len(seq) : seq[i].label = l})

NoRisk == [kind |-> "none", error |-> "none", top |-> <<>>, negative |-> 0,
           neutral |-> 0, positive |-> 0, total |-> 0 - 1, escaped |-> "none"]

RiskError(msg) == [NoRisk EXCEPT !.kind = "error", !.error = msg]

\* Lines 53-122.
AnalyzeRiskOf(in) ==
    IF in.load = "fail" THEN RiskError("FinBERT Model Load Failed")
    ELSE LET sentences == Take(SplitSentences(in), SentenceCap) IN
         IF sentences = <<>> THEN [NoRisk EXCEPT !.kind = "report"]
         ELSE IF in.infer = "raises" THEN RiskError("Inference Failed")
         ELSE LET scored == SubSeq([j \in 1..Len(sentences) |->
                                      Scored(in, sentences[j])], 1, Len(sentences)) IN
              [kind |-> "report", error |-> "none",
               top |-> Take(SortByScore(scored), in.top_n),
               negative |-> CountLabel(scored, "negative"),
               neutral |-> CountLabel(scored, "neutral"),
               positive |-> CountLabel(scored, "positive"),
               total |-> Len(sentences), escaped |-> "none"]

\* One call of analyze_risk.
AnalyzeRisk ==
    /\ UNCHANGED not_rvars
    /\ r_pc = "start"
    /\ r_pc' = "done"
    /\ r_out' = AnalyzeRiskOf(r_in)
    /\ UNCHANGED <<r_in, d_in, d_pc, d_out>>

InitRisk ==
    /\ r_in \in RiskInputs
    /\ r_pc = "start"
    /\ r_out = NoRisk
    /\ d_in \in Documents
    /\ d_pc = "start"
    /\ d_out = NoSlice

NextRisk == AnalyzeRisk \/ ExtractSection

----------------------------------------------------------------------------
(* Provider replies: AIAnalyst._call_openai, _call_ollama,                 *)
(* analyze_10k_content and LLMReporter                                     *)

\* Pieces of the text between the fences of a reply.
MaxBody == 2

\* The keys of the two report schemas.
AnalysisKeys == {"executive_summary", "key_metrics_commentary", "risks_summary",
                 "growth_drivers", "red_flags"}
FilingKeys == {"executive_summary", "key_points", "risks", "financial_drivers",
               "what_to_watch"}

\* The texts of JSON objects a reply is made of: an object with the keys of
\* the filing schema, one with the keys of the report schema, one with an
\* executive_summary only.
ObjectTokens == {"filing", "report", "partial"}

\* The pieces of a reply body: running text that is no JSON, a lone "{", a
\* lone "}", the text of a JSON object, the text of a JSON array of strings.
BodyTokens == {"junk", "open", "close", "list"} \cup ObjectTokens

\* A reply: an opening fence (```json or a bare ```) or none, white space
\* around the body or none, the body, a closing fence (```) or none.
Replies == [lead : {"none", "fence_json", "fence"}, ws : BOOLEAN,
            body : SeqsUpTo(BodyTokens, MaxBody), trail : {"none", "fence"}]

\* The text of a reply, piece by piece.
TextOf(reply) ==
    (IF reply.lead = "none" THEN <<>> ELSE <<reply.lead>>)
    \o (IF reply.ws THEN <<"ws">> ELSE <<>>)
    \o reply.body
    \o (IF reply.ws THEN <<"ws">> ELSE <<>>)
    \o (IF reply.trail = "none" THEN <<>> ELSE <<reply.trail>>)

RECURSIVE Strip(_)
\* str.strip()
Strip(text) ==
    IF text = <<>> THEN text
    ELSE IF Head(text) = "ws" THEN Strip(Tail(text))
    ELSE IF text[Len(text)] = "ws" THEN Strip(SubSeq(text, 1, Len(text) - 1))
    ELSE text

\* if content.startswith("```json"): content = content[7:]
DropOpeningFenceMut(content) == content
DropOpeningFence(content) ==
    IF content # <<>> /\ Head(content) = "fence_json" THEN Tail(content) ELSE content

\* if content.endswith("```"): content = content[:-3]
DropClosingFence(content) ==
    IF content # <<>> /\ content[Len(content)] = "fence"
    THEN SubSeq(content, 1, Len(content) - 1) ELSE content

\* Lines 209-216 (and 144-148, 361-364): strip, drop the fences, strip.
CleanReply(raw) == Strip(DropClosingFence(DropOpeningFence(Strip(raw))))

\* A parsed JSON value, or the failure to parse one.
Object(keys, n) == [type |-> "dict", keys |-> keys, exec_len |-> n, commentary |-> <<>>]
JsonError == [type |-> "invalid", keys |-> {}, exec_len |-> 0, commentary |-> <<>>]
JsonList == [type |-> "list", keys |-> {}, exec_len |-> 0, commentary |-> <<>>]

JsonValue(tok) ==
    CASE tok = "filing" -> Object(FilingKeys, 21)
      [] tok = "report" -> Object(AnalysisKeys, 21)
      [] tok = "partial" -> Object({"executive_summary"}, 21)
      [] tok = "list" -> JsonList

\* json.loads: one JSON value, white space around it allowed; "{" followed
\* by "}" is the empty object; anything else raises JSONDecodeError.
JsonLoads(text) ==
    LET t == Strip(text) IN
    IF Len(t) = 1 /\ t[1] \in ObjectTokens \cup {"list"} THEN JsonValue(t[1])
    ELSE IF t = <<"open", "close">> THEN Object({}, 0)
    ELSE JsonError

\* Lines 220-228: the report built on JSONDecodeError, its commentary
\* content[:300] + "...".
CommentaryMut(content) == <<>>
Commentary(content) == content
DegradedOf(content) ==
    [type |-> "dict", keys |-> AnalysisKeys, exec_len |-> DegradedSummaryLen,
     commentary |-> Commentary(content)]

\* Lines 149-157: the report _call_ollama builds on any failure.
OllamaErrorOf == Object(AnalysisKeys, OllamaErrorReport.exec_len)

\* analysis_data of lines 280-283: "Analysis not performed." and four empty
\* lists.
Placeholder == Object(FilingKeys, 23)

NoLlm == [present |-> FALSE, used |-> "absent", error |-> "none",
          has_analysis |-> FALSE, analysis |-> JsonError, raw_output |-> <<>>]

LlmUnused(msg) == [NoLlm EXCEPT !.present = TRUE, !.used = "false", !.error = msg]

\* LLMReporter._parse_json: from the first "{" to the last "}".
ParseJson(text) ==
    LET opens == {i \in 1..Len(text) : text[i] \in {"open"} \cup ObjectTokens}
        closes == {i \in 1..Len(text) : text[i] \in {"close"} \cup ObjectTokens}
        start == IF opens = {} THEN 0 - 1 ELSE First(opens)
        end == IF closes = {} THEN 0 ELSE CHOOSE i \in closes : \A j \in closes : j <= i
        data == IF start = 0 - 1 THEN JsonError ELSE JsonLoads(SubSeq(text, start, end))
    IN IF data.type # "invalid"
       THEN [NoLlm EXCEPT !.present = TRUE, !.used = "true", !.has_analysis = TRUE,
                          !.analysis = data]
       ELSE [NoLlm EXCEPT !.present = TRUE, !.used = "true",
                          !.error = "JSON Parsing Failed", !.raw_output = text]

\* LLMReporter.generate_report, lines 48-126.
GenerateReport(in) ==
    IF in.env = "local_load_fail" THEN LlmUnused("Model Load Failed")
    ELSE IF in.env = "local_gen_fail" THEN LlmUnused("Generation Failed")
    ELSE ParseJson(TextOf(in.reply))

\* if llm_res.get("used") and "analysis" in llm_res
AdoptsMut(llm_res) == TRUE
Adopts(llm_res) == llm_res.used = "true" /\ llm_res.has_analysis

\* What the providers and the local model do in a call of
\* analyze_10k_content: use_llm set and the local model loads and generates,
\* fails to load, fails to generate, or cannot be imported; use_llm unset
\* and a cloud key, whose call returns or raises; neither.
FilingEnvs == {"local_ok", "local_load_fail", "local_gen_fail", "local_import_fail",
               "cloud_ok", "cloud_raise", "none"}

\* What the provider call of _call_openai and _call_ollama does.
CallEnvs == {"ok", "raises"}

\* use_finbert unset, or set and RiskAnalyst returns a report or raises.
FinbertModes == {"off", "report", "raises"}

Ops == {"call_openai", "call_ollama", "analyze_10k"}

NoOutcomeYet == [escaped |-> "none", accepted |-> FALSE, result |-> JsonError,
                 finbert |-> "absent", llm |-> NoLlm, keys |-> {}, summary_len |-> 0]

\* Lines 52-61 with _call_openai (197-231): one iteration of the retry loop
\* on a reply.
OpenaiReplyOf(in) ==
    IF in.env = "raises" THEN NoOutcomeYet
    ELSE LET content == CleanReply(TextOf(in.reply))
             data == JsonLoads(content)
             result == IF data.type = "invalid" THEN DegradedOf(content) ELSE data
         IN [NoOutcomeYet EXCEPT
                !.result = result,
                \* result.get on a list raises AttributeError, caught at line 62
                !.accepted = (result.type = "dict" /\ Validates(result)),
                !.keys = IF result.type = "dict" /\ Validates(result)
                         THEN result.keys ELSE {},
                !.summary_len = result.exec_len]

\* Lines 37-38 with _call_ollama (139-157): whatever JSON the reply holds is
\* returned as the report.
OllamaReplyOf(in) ==
    LET data == IF in.env = "raises" THEN JsonError
                ELSE JsonLoads(CleanReply(TextOf(in.reply)))
        result == IF data.type = "invalid" THEN OllamaErrorOf ELSE data
    IN [NoOutcomeYet EXCEPT !.result = result, !.accepted = TRUE,
                            !.keys = result.keys, !.summary_len = result.exec_len]

\* Lines 243-377.
Analyze10kOf(in) ==
    LET finbert == CASE in.finbert = "off" -> "absent"
                     [] in.finbert = "report" -> "report"
                     [] in.finbert = "raises" -> "error"
        local == in.env \in {"local_ok", "local_load_fail", "local_gen_fail",
                             "local_import_fail"}
        llm_res == IF ~local THEN NoLlm
                   ELSE IF in.env = "local_import_fail"
                   THEN [NoLlm EXCEPT !.present = TRUE, !.error = "exception"]
                   ELSE GenerateReport(in)
        cloud == IF in.env = "cloud_ok"
                 THEN JsonLoads(CleanReply(TextOf(in.reply)))
                 ELSE JsonError
        analysis_data ==
            IF local
            THEN IF in.env # "local_import_fail" /\ Adopts(llm_res)
                 THEN llm_res.analysis ELSE Placeholder
            ELSE IF cloud.type # "invalid" THEN cloud ELSE Placeholder
    IN IF analysis_data.type # "dict"
       \* result_agg.update(analysis_data) on a list of strings
       THEN [NoOutcomeYet EXCEPT !.escaped = "ValueError"]
       ELSE [NoOutcomeYet EXCEPT
                !.accepted = TRUE, !.result = analysis_data, !.finbert = finbert,
                !.llm = llm_res, !.keys = analysis_data.keys,
                !.summary_len = analysis_data.exec_len]

InitReply ==
    /\ k_op \in Ops
    /\ k_in \in [reply : Replies, env : FilingEnvs \cup CallEnvs, finbert : FinbertModes]
    /\ k_op = "analyze_10k" => k_in.env \in FilingEnvs
    /\ k_op # "analyze_10k" => (k_in.env \in CallEnvs /\ k_in.finbert = "off")
    /\ k_pc = "start"
    /\ k_out = NoOutcomeYet

Answer(out) ==
    /\ k_pc = "start"
    /\ k_pc' = "done"
    /\ k_out' = out
    /\ UNCHANGED <<k_op, k_in>>

OpenaiReply ==
    /\ UNCHANGED not_kvars
    /\ k_op = "call_openai"
    /\ Answer(OpenaiReplyOf(k_in))

OllamaReply ==
    /\ UNCHANGED not_kvars
    /\ k_op = "call_ollama"
    /\ Answer(OllamaReplyOf(k_in))

Analyze10kContent ==
    /\ UNCHANGED not_kvars
    /\ k_op = "analyze_10k"
    /\ Answer(Analyze10kOf(k_in))

NextReply == OpenaiReply \/ OllamaReply \/ Analyze10kContent

----------------------------------------------------------------------------
(* Concurrent get_latest_filing_text requests for one cache key            *)

\* The requests, each on its worker thread, that resolve to the same
\* (ticker, accession).
Requests == {"q1", "q2"}

\* Calls each request thread makes.
MaxRaceCalls == 1

\* Lengths of the extracted text of the filing of the key.
DocLens == {2, 20001}

InitRace ==
    /\ w_doc \in {FullText(n) : n \in DocLens}
    /\ w_file = NoFile
    /\ w_pc = [q \in Requests |-> "idle"]
    /\ w_calls = [q \in Requests |-> 0]
    /\ w_out = [q \in Requests |-> NoResult]

RaceGoto(q, l) == w_pc' = [w_pc EXCEPT ![q] = l]

RaceReturn(q, r) ==
    /\ w_pc' = [w_pc EXCEPT ![q] = "idle"]
    /\ w_out' = [w_out EXCEPT ![q] = r]

\* open(cache_text_path, "w"): the file exists from now on and is empty.
Truncated(doc) == Prefix(doc, 0)

\* Lines 106-172: the call resolves its key.
RaceStart(q) ==
    /\ UNCHANGED not_wvars
    /\ w_pc[q] = "idle"
    /\ w_calls[q] < MaxRaceCalls
    /\ w_calls' = [w_calls EXCEPT ![q] = @ + 1]
    /\ w_out' = [w_out EXCEPT ![q] = NoResult]
    /\ RaceGoto(q, "exists")
    /\ UNCHANGED <<w_doc, w_file>>

\* Line 174: os.path.exists(cache_text_path).
RaceExists(q) ==
    /\ UNCHANGED not_wvars
    /\ w_pc[q] = "exists"
    /\ RaceGoto(q, IF CacheExists(w_file) THEN "read" ELSE "fetch")
    /\ UNCHANGED <<w_doc, w_file, w_calls, w_out>>

\* Lines 175-184: open and f.read() return what the file holds now; a
\* failure of either proceeds to the fetch.
RaceRead(q) ==
    /\ UNCHANGED not_wvars
    /\ w_pc[q] = "read"
    /\ \E readOk \in BOOLEAN :
        IF readOk
        THEN RaceReturn(q, IngestorResult("success", "cache", w_file.text))
        ELSE RaceGoto(q, "fetch") /\ UNCHANGED w_out
    /\ UNCHANGED <<w_doc, w_file, w_calls>>

\* Lines 193-216: the document request and the extraction of clean_text.
RaceFetch(q) ==
    /\ UNCHANGED not_wvars
    /\ w_pc[q] = "fetch"
    /\ \E ok \in BOOLEAN :
        IF ok
        THEN RaceGoto(q, "open") /\ UNCHANGED w_out
        ELSE RaceReturn(q, IngestorError("Failed to download filing HTML"))
    /\ UNCHANGED <<w_doc, w_file, w_calls>>

\* Line 218: open(cache_text_path, "w") creates or truncates the file.
RaceOpen(q) ==
    /\ UNCHANGED not_wvars
    /\ w_pc[q] = "open"
    /\ w_file' = FileOf(Truncated(w_doc))
    /\ RaceGoto(q, "write")
    /\ UNCHANGED <<w_doc, w_calls, w_out>>

\* Line 219 and the end of the with block: clean_text is in the file.
RaceWrite(q) ==
    /\ UNCHANGED not_wvars
    /\ w_pc[q] = "write"
    /\ w_file' = FileOf(w_doc)
    /\ RaceGoto(q, "meta")
    /\ UNCHANGED <<w_doc, w_calls, w_out>>

\* Lines 221-238: the metadata file and the return of clean_text[:20000].
RaceMeta(q) ==
    /\ UNCHANGED not_wvars
    /\ w_pc[q] = "meta"
    /\ RaceReturn(q, IngestorResult("success", "live_sec",
                                    Prefix(w_doc, ReturnLimit)))
    /\ UNCHANGED <<w_doc, w_file, w_calls>>

NextRace ==
    \E q \in Requests :
        \/ RaceStart(q) \/ RaceExists(q) \/ RaceRead(q) \/ RaceFetch(q)
        \/ RaceOpen(q) \/ RaceWrite(q) \/ RaceMeta(q)
----------------------------------------------------------------------------
(* The two metrics engines on the same latest-year figures                 *)

\* The figures of the latest year: a number, or None when the CSV column
\* (the XBRL series entry) is missing. Capex is stored positive or negative.
LatestRevenues == {None, Num(0), Num(1000)}
LatestNetIncomes == {Num(4), Num(0 - 4)}
LatestCashFlows == {None, Num(5)}
LatestCapex == {None, Num(0), Num(3), Num(0 - 3)}
LatestEquities == {None, Num(0), Num(8)}

LatestInputs == [revenue : LatestRevenues, net_income : LatestNetIncomes,
                 operating_cash_flow : LatestCashFlows, capex : LatestCapex,
                 equity : LatestEquities]

NoRatios == [ran |-> FALSE, net_margin |-> None, roe |-> None, fcf |-> None]

\* A CSV column holding v in its last row; a missing column is an empty Series.
ColumnOf(v) == IF v = None THEN <<>> ELSE <<v>>

\* metrics.py lines 71-98 on the last row.
CsvRatios(in) ==
    LET revenue == ColumnOf(in.revenue)
        net_income == ColumnOf(in.net_income)
        equity == ColumnOf(in.equity)
        op_cash_flow == ColumnOf(in.operating_cash_flow)
        capex == ColumnOf(in.capex)
        capex_val == IF Len(capex) > 0 THEN Abs(ILoc(capex, 1)) ELSE Num(0)
    IN [ran |-> TRUE,
        net_margin |-> OrZero(GuardedRatio(ILoc(net_income, 1), ILoc(revenue, 1))),
        roe |-> OrZero(GuardedRatio(ILoc(net_income, 1), ILoc(equity, 1))),
        fcf |-> OrZero(IF ILoc(op_cash_flow, 1).k # "num" THEN ILoc(op_cash_flow, 1)
                       ELSE Sub(ILoc(op_cash_flow, 1), capex_val))]

\* xbrl_metrics.py lines 156-165 for the latest year.
XbrlRatios(in) ==
    LET capex == GetOr0(in.capex) IN
    [ran |-> TRUE,
     net_margin |-> NetMargin(in.net_income, in.revenue),
     roe |-> Roe(in.net_income, in.equity),
     fcf |-> Fcf(in.operating_cash_flow, capex)]

InitBoth ==
    /\ b_in \in LatestInputs
    /\ b_csv = NoRatios
    /\ b_xbrl = NoRatios

\* FinancialMetrics.calculate_metrics computes the ratios of the last row.
CsvLatest ==
    /\ UNCHANGED not_bvars
    /\ ~b_csv.ran
    /\ b_csv' = CsvRatios(b_in)
    /\ UNCHANGED <<b_in, b_xbrl>>

\* XBRLMetrics.extract_metrics computes the row of the latest year.
XbrlLatest ==
    /\ UNCHANGED not_bvars
    /\ ~b_xbrl.ran
    /\ b_xbrl' = XbrlRatios(b_in)
    /\ UNCHANGED <<b_in, b_csv>>

NextBoth == CsvLatest \/ XbrlLatest
----------------------------------------------------------------------------
(* The API handlers: POST /ask and POST /sec/10k/analyze                   *)

\* How sec_ingestor.get_latest_filing_text ends: with a text, with status
\* "warning" (SEC_USER_AGENT is not set), "error" or "not_found", or by
\* raising.
SecEnds == {"success", "warning", "error", "not_found", "raised"}

\* metrics_engine.calculate_metrics: a metrics dict, or an "error" entry.
MetricsEnds == {"ok", "error"}

\* forecaster.generate_forecast: a forecast, or None.
ForecastEnds == {"ok", "none"}

\* ai_analyst.analyze: a report with the keys of the prompt
\* (executive_summary, ...), a report that also carries the key
\* "Executive Summary", a report holding a value that is not a string, or
\* an exception.
AiEnds == {"report", "titled", "nonstring", "raise"}

\* sec_service.get_latest_10k: fetch_res["status"].
FetchEnds == {200, 404, 502}

AskRequests ==
    [op : {"ask"}, sec : SecEnds, metrics : MetricsEnds, forecast : ForecastEnds,
     use_ai : BOOLEAN, ai : AiEnds, fetch : {200}, use_finbert : {FALSE},
     use_llm : {FALSE}]

AnalyzeRequests ==
    [op : {"analyze"}, sec : {"success"}, metrics : {"ok"}, forecast : {"ok"},
     use_ai : BOOLEAN, ai : {"report"}, fetch : FetchEnds, use_finbert : BOOLEAN,
     use_llm : BOOLEAN]

\* final_answer before the AI stage: every field is "N/A".
NoAnswer == [summary |-> "N/A", keys |-> {"Executive Summary"}, strings |-> TRUE]

NoCombined == [kind |-> "none", ran |-> FALSE]

NoResponse == [status |-> 0, ai_used |-> FALSE, answer |-> NoAnswer,
               warnings |-> {}, error |-> "none"]

\* if sec_data.get("status") not in ["success", "warning"]
ExtendsWarnings(status) == status \notin {"success", "warning"}

\* final_answer.update(analysis_result): the keys of the report are added;
\* "Executive Summary" changes only if the report has that very key.
UpdateAnswer(answer, ai) ==
    [summary |-> IF ai = "titled" THEN "generated" ELSE answer.summary,
     keys |-> answer.keys \cup {"executive_summary"}
              \cup (IF ai = "titled" THEN {"Executive Summary"} ELSE {}),
     strings |-> ai # "nonstring"]

\* final_answer["Executive Summary"] = "AI Analysis failed to generate. ..."
FailedAnswer(answer) == [answer EXCEPT !.summary = "AI Analysis failed"]

\* await asyncio.to_thread(func, ...): func(...) is called on a worker and
\* its return value handed back. Calling an async def function runs none of
\* its body and returns a coroutine object.
AsyncDefs == {"analyze_10k_content"}
ToThread(func) ==
    IF func \in AsyncDefs
    THEN [kind |-> "coroutine", ran |-> FALSE]
    ELSE [kind |-> "mapping", ran |-> TRUE]

InitApi ==
    /\ h_req \in AskRequests \cup AnalyzeRequests
    /\ h_pc = "start"
    /\ h_warnings = {}
    /\ h_answer = NoAnswer
    /\ h_ai_used = FALSE
    /\ h_combined = NoCombined
    /\ h_resp = NoResponse

\* main.py lines 170-179: the ingestion on a worker, and its warnings.
AskIngest ==
    /\ UNCHANGED not_hvars
    /\ h_req.op = "ask" /\ h_pc = "start"
    /\ h_warnings' = IF ExtendsWarnings(IF h_req.sec = "raised" THEN "error"
                                        ELSE h_req.sec)
                     THEN h_warnings \cup {"sec"} ELSE h_warnings
    /\ h_pc' = "metrics"
    /\ UNCHANGED <<h_req, h_answer, h_ai_used, h_combined, h_resp>>

\* Lines 181-194: the metrics and, when there are metrics, the forecast.
AskMetrics ==
    /\ UNCHANGED not_hvars
    /\ h_req.op = "ask" /\ h_pc = "metrics"
    /\ h_warnings' =
         IF h_req.metrics = "error" THEN h_warnings \cup {"metrics"}
         ELSE IF h_req.forecast = "none" THEN h_warnings \cup {"forecast"}
         ELSE h_warnings
    /\ h_pc' = "ai"
    /\ UNCHANGED <<h_req, h_answer, h_ai_used, h_combined, h_resp>>

\* Lines 196-230: the AI stage.
AskAnalysis ==
    /\ UNCHANGED not_hvars
    /\ h_req.op = "ask" /\ h_pc = "ai"
    /\ IF ~h_req.use_ai
       THEN UNCHANGED <<h_answer, h_ai_used, h_warnings>>
       ELSE IF h_req.ai = "raise"
       THEN /\ h_warnings' = h_warnings \cup {"ai"}
            /\ h_answer' = FailedAnswer(h_answer)
            /\ UNCHANGED h_ai_used
       ELSE /\ h_answer' = UpdateAnswer(h_answer, h_req.ai)
            /\ h_ai_used' = TRUE
            /\ UNCHANGED h_warnings
    /\ h_pc' = "respond"
    /\ UNCHANGED <<h_req, h_combined, h_resp>>

\* Lines 232-242: AskResponse(...), whose answer is a Dict[str, str]; a value
\* that is not a string fails the validation and the request ends in 500.
AskRespond ==
    /\ UNCHANGED not_hvars
    /\ h_req.op = "ask" /\ h_pc = "respond"
    /\ h_resp' = IF h_answer.strings
                 THEN [status |-> 200, ai_used |-> h_ai_used, answer |-> h_answer,
                       warnings |-> h_warnings, error |-> "none"]
                 ELSE [NoResponse EXCEPT !.status = 500, !.error = "ValidationError"]
    /\ h_pc' = "done"
    /\ UNCHANGED <<h_req, h_warnings, h_answer, h_ai_used, h_combined>>

\* Lines 80-96 and 121-126: the fetch, and the choice of the branch.
AnalyzeFetch ==
    /\ UNCHANGED not_hvars
    /\ h_req.op = "analyze" /\ h_pc = "start"
    /\ IF h_req.fetch # 200
       THEN /\ h_resp' = [NoResponse EXCEPT !.status = 200, !.error = "Fetch failed",
                                            !.warnings = {"fetch"}]
            /\ h_pc' = "done"
       ELSE /\ h_pc' = IF h_req.use_ai \/ h_req.use_finbert \/ h_req.use_llm
                       THEN "offload" ELSE "respond"
            /\ UNCHANGED h_resp
    /\ UNCHANGED <<h_req, h_warnings, h_answer, h_ai_used, h_combined>>

\* Lines 98-107: combined_result = await asyncio.to_thread(
\* ai_analyst.analyze_10k_content, ...).
AnalyzeOffload ==
    /\ UNCHANGED not_hvars
    /\ h_req.op = "analyze" /\ h_pc = "offload"
    /\ h_combined' = ToThread("analyze_10k_content")
    /\ h_pc' = "respond"
    /\ UNCHANGED <<h_req, h_warnings, h_answer, h_ai_used, h_resp>>

\* Lines 109-141: combined_result.pop(...) and the response; a coroutine
\* object has no pop and the handler ends with AttributeError.
AnalyzeRespond ==
    /\ UNCHANGED not_hvars
    /\ h_req.op = "analyze" /\ h_pc = "respond"
    /\ h_resp' = IF h_combined.kind = "coroutine"
                 THEN [NoResponse EXCEPT !.status = 500, !.error = "AttributeError"]
                 ELSE [NoResponse EXCEPT !.status = 200,
                                         !.ai_used = h_combined.kind = "mapping"]
    /\ h_pc' = "done"
    /\ UNCHANGED <<h_req, h_warnings, h_answer, h_ai_used, h_combined>>

NextApi ==
    \/ AskIngest \/ AskMetrics \/ AskAnalysis \/ AskRespond
    \/ AnalyzeFetch \/ AnalyzeOffload \/ AnalyzeRespond
----------------------------------------------------------------------------
(* Specifications                                                          *)

\* The state of a component that is not running: no request to analyze, no
\* thread in ModelManager.
IdleAnalyze ==
    /\ env_ollama = FALSE
    /\ has_client = FALSE
    /\ metrics = [k \in MetricKeys |-> "absent"]
    /\ forecast = "falsy"
    /\ a_pc = "start"
    /\ attempt = 0
    /\ backoff = 0
    /\ last_error = FALSE
    /\ calls = <<>>
    /\ cloud_log = <<>>
    /\ ollama_result = "none"
    /\ sleeps = <<>>
    /\ outcome = "none"
    /\ err = "none"
    /\ report = NoReport

IdleModels == InitModels

IdleSec == user_agent = TRUE /\ InitSec

IdleFacts == InitFacts

IdleExtract == e_rev = [y \in Years |-> None] /\ InitExtract

IdleCsv ==
    /\ c_in = [file |-> "absent", cols |-> {}, year |-> "absent",
               revenue |-> <<>>, equity |-> Num(0)]
    /\ InitCsv

IdleForecast ==
    /\ f_in = [rows |-> 0 - 1, revenue |-> FALSE, year |-> FALSE, first |-> 2019,
               shape |-> "linear"]
    /\ InitForecast

IdleRisk ==
    /\ r_in = [load |-> "fail", infer |-> "ok", raw |-> 0, lens |-> "long",
               clf |-> [i \in 0..2 |-> [positive |-> 10, negative |-> 70,
                                        neutral |-> 20]],
               top_n |-> 15]
    /\ d_in = <<>>
    /\ InitRisk

IdleReply ==
    /\ k_op = "call_openai"
    /\ k_in = [reply |-> [lead |-> "none", ws |-> FALSE, body |-> <<>>,
                         trail |-> "none"],
               env |-> "raises", finbert |-> "off"]
    /\ InitReply

IdleRace ==
    /\ w_doc = FullText(2)
    /\ InitRace

IdleBoth ==
    /\ b_in = [revenue |-> None, net_income |-> Num(4),
               operating_cash_flow |-> None, capex |-> None, equity |-> None]
    /\ InitBoth

IdleApi ==
    /\ h_req = [op |-> "ask", sec |-> "success", metrics |-> "ok",
                forecast |-> "ok", use_ai |-> FALSE, ai |-> "report",
                fetch |-> 200, use_finbert |-> FALSE, use_llm |-> FALSE]
    /\ InitApi

Init == InitAnalyze /\ InitModels /\ InitSec /\ InitFacts /\ InitExtract /\ InitCsv
        /\ InitForecast /\ InitRisk /\ InitReply /\ InitRace /\ InitBoth /\ InitApi

Next == NextAnalyze \/ NextModels \/ NextSec \/ NextFacts \/ NextExtract \/ NextCsv
        \/ NextForecast \/ NextRisk \/ NextReply \/ NextRace \/ NextBoth \/ NextApi

Spec == Init /\ [][Next]_vars

\* One request to AIAnalyst.analyze.
InitSpecAnalyze ==
    InitAnalyze /\ IdleModels /\ IdleSec /\ IdleFacts /\ IdleExtract /\ IdleCsv
    /\ IdleForecast /\ IdleRisk /\ IdleReply /\ IdleRace /\ IdleBoth /\ IdleApi

SpecAnalyze == InitSpecAnalyze /\ [][NextAnalyze]_vars

\* The threads of one process using ModelManager.
InitSpecModels ==
    InitModels /\ IdleAnalyze /\ IdleSec /\ IdleFacts /\ IdleExtract /\ IdleCsv
    /\ IdleForecast /\ IdleRisk /\ IdleReply /\ IdleRace /\ IdleBoth /\ IdleApi

SpecModels == InitSpecModels /\ [][NextModels]_vars

\* A run of calls to SECIngestor.get_latest_filing_text and
\* SecService.get_latest_10k, one at a time.
InitSpecSec ==
    InitSec /\ IdleAnalyze /\ IdleModels /\ IdleFacts /\ IdleExtract /\ IdleCsv
    /\ IdleForecast /\ IdleRisk /\ IdleReply /\ IdleRace /\ IdleBoth /\ IdleApi

SpecSec == InitSpecSec /\ [][NextSec]_vars

\* A run of calls to XBRLMetrics.get_company_facts for one ticker, with the
\* clock moving.
InitSpecFacts ==
    InitFacts /\ IdleAnalyze /\ IdleModels /\ IdleSec /\ IdleExtract /\ IdleCsv
    /\ IdleForecast /\ IdleRisk /\ IdleReply /\ IdleRace /\ IdleBoth /\ IdleApi

SpecFacts == InitSpecFacts /\ [][NextFacts]_vars

\* One call of extract_metrics on a revenue series, followed by the rest of
\* analyze_xbrl.
InitSpecExtract ==
    InitExtract /\ IdleAnalyze /\ IdleModels /\ IdleSec /\ IdleFacts /\ IdleCsv
    /\ IdleForecast /\ IdleRisk /\ IdleReply /\ IdleRace /\ IdleBoth /\ IdleApi

SpecExtract == InitSpecExtract /\ [][NextExtract]_vars

\* One call of calculate_metrics on a data file.
InitSpecCsv ==
    IdleAnalyze /\ IdleModels /\ IdleSec /\ IdleFacts /\ IdleExtract /\ IdleForecast
    /\ IdleRisk /\ IdleReply /\ IdleRace /\ IdleBoth /\ IdleApi
    /\ InitCsv

SpecCsv == InitSpecCsv /\ [][NextCsv]_vars

\* Both metrics engines on the revenue series 100, 110, 120, 133.1 of four
\* consecutive years.
InitSpecCagr ==
    /\ IdleAnalyze /\ IdleModels /\ IdleSec /\ IdleFacts /\ IdleForecast
    /\ IdleRisk /\ IdleReply /\ IdleRace /\ IdleBoth /\ IdleApi
    /\ e_rev = [y \in Years |-> Num(CASE y = 2020 -> 1000 [] y = 2021 -> 1100
                                      [] y = 2022 -> 1200 [] y = 2023 -> 1331)]
    /\ InitExtract
    /\ c_in = [file |-> "ok", cols |-> Columns, year |-> "ok",
               revenue |-> <<Num(1000), Num(1100), Num(1200), Num(1331)>>,
               equity |-> Num(8)]
    /\ InitCsv

SpecCagr == InitSpecCagr /\ [][NextExtract \/ NextCsv]_vars

\* One call of generate_forecast.
InitSpecForecast ==
    /\ IdleAnalyze /\ IdleModels /\ IdleSec /\ IdleFacts /\ IdleExtract /\ IdleCsv
    /\ IdleRisk /\ IdleReply /\ IdleRace /\ IdleBoth /\ IdleApi
    /\ InitForecast

SpecForecast == InitSpecForecast /\ [][NextForecast]_vars

\* One call of analyze_risk on the sentences of a risk section.
InitSpecRisk ==
    /\ IdleAnalyze /\ IdleModels /\ IdleSec /\ IdleFacts /\ IdleExtract /\ IdleCsv
    /\ IdleForecast /\ IdleReply /\ IdleRace /\ IdleBoth /\ IdleApi
    /\ d_in = <<>>
    /\ InitRisk

SpecRisk == InitSpecRisk /\ [][AnalyzeRisk]_vars

\* One call of _extract_risk_section on a document.
InitSpecSection ==
    /\ IdleAnalyze /\ IdleModels /\ IdleSec /\ IdleFacts /\ IdleExtract /\ IdleCsv
    /\ IdleForecast /\ IdleReply /\ IdleRace /\ IdleBoth /\ IdleApi
    /\ r_in = [load |-> "fail", infer |-> "ok", raw |-> 0, lens |-> "long",
               clf |-> [i \in 0..2 |-> [positive |-> 10, negative |-> 70,
                                        neutral |-> 20]],
               top_n |-> 15]
    /\ InitRisk

SpecSection == InitSpecSection /\ [][ExtractSection]_vars

\* One call of _call_openai inside the retry loop, of _call_ollama, or of
\* analyze_10k_content, on a reply.
InitSpecReply ==
    /\ IdleAnalyze /\ IdleModels /\ IdleSec /\ IdleFacts /\ IdleExtract /\ IdleCsv
    /\ IdleForecast /\ IdleRisk
    /\ IdleRace /\ IdleBoth /\ IdleApi
    /\ InitReply

SpecReply == InitSpecReply /\ [][NextReply]_vars

\* Two concurrent get_latest_filing_text requests for the same key.
InitSpecRace ==
    /\ IdleAnalyze /\ IdleModels /\ IdleSec /\ IdleFacts /\ IdleExtract /\ IdleCsv
    /\ IdleForecast /\ IdleRisk /\ IdleReply
    /\ IdleBoth /\ IdleApi
    /\ InitRace

SpecRace == InitSpecRace /\ [][NextRace]_vars

\* Both metrics engines on one set of latest-year figures.
InitSpecBoth ==
    /\ IdleAnalyze /\ IdleModels /\ IdleSec /\ IdleFacts /\ IdleExtract /\ IdleCsv
    /\ IdleForecast /\ IdleRisk /\ IdleReply /\ IdleRace
    /\ IdleApi
    /\ InitBoth

SpecBoth == InitSpecBoth /\ [][NextBoth]_vars

\* One request to POST /ask or to POST /sec/10k/analyze.
InitSpecApi ==
    /\ IdleAnalyze /\ IdleModels /\ IdleSec /\ IdleFacts /\ IdleExtract /\ IdleCsv
    /\ IdleForecast /\ IdleRisk /\ IdleReply /\ IdleRace /\ IdleBoth
    /\ InitApi

SpecApi == InitSpecApi /\ [][NextApi]_vars

----------------------------------------------------------------------------
(* Claims about AIAnalyst.analyze, checked under SpecAnalyze               *)

\* The data summary was built: the request got as far as choosing a provider.
SummaryBuilt == a_pc # "start" /\ err \notin {"TypeError", "KeyError"}

AllTransportFailures == \A i \in 1..Len(cloud_log) : cloud_log[i] = "raise"

C2_LocalFailureFallsThroughToCloud ==
    /\ \A i, j \in 1..Len(calls) :
          (calls[i] = "ollama" /\ calls[j] = "openai") => i < j
    /\ (a_pc = "done" /\ env_ollama /\ has_client /\ ollama_result = "gen_error")
          => \E i \in 1..Len(calls) : calls[i] = "openai"

\* C3: with no provider configured at all, the request returns the
\* rule-based report, raises nothing and calls no provider.
C3_NoProviderReturnsRuleBased ==
    (a_pc = "done" /\ ~env_ollama /\ ~has_client /\ SummaryBuilt) =>
        /\ outcome = "returned"
        /\ report.kind = "rule_based"
        /\ calls = <<>>

\* C4: when the local inference call fails and no cloud credential is
\* configured, the request returns the rule-based report and does not raise.
C4_LocalFailureNoKeyReturnsRuleBased ==
    (a_pc = "done" /\ env_ollama /\ ~has_client /\ ollama_result = "gen_error") =>
        /\ outcome = "returned"
        /\ report.kind = "rule_based"
----------------------------------------------------------------------------
(* Claims about ModelManager, checked under SpecModels                     *)

\* C5: whatever the interleaving of the threads that call get_finbert or
\* get_llm, each model is loaded at most once in the process.
C5_LoadAtMostOnce == finbert_loads <= 1 /\ llm_loads <= 1
----------------------------------------------------------------------------
(* Claims about SECIngestor and SecService, checked under SpecSec          *)

Requested(url) == \E i \in 1..Len(s_trace) : s_trace[i] = url

\* C6: once a live fetch has written the cache entry of a key, a later call
\* that resolves to that key and can read the file returns the cached text
\* with source "cache" and requests no document; document fetches for the
\* key after the write happen only after a failed read.
C6_CachedFilingNotRefetched ==
    /\ (s_obj = "ingestor" /\ s_lookup.done /\ s_lookup.live /\ s_lookup.readable) =>
          /\ s_pc = "idle"
          /\ s_result.status = "success"
          /\ s_result.source = "cache"
          /\ s_result.text = text_cache[s_lookup.key].text
          /\ ~Requested("doc")
    /\ \A k \in Keys : ~unreadable[k] => refetches[k] = 0

C6_Witness ==
    /\ s_obj = "ingestor" /\ s_pc = "idle"
    /\ s_lookup.done /\ s_lookup.live /\ s_lookup.readable
    /\ s_result.source = "cache"
    /\ n_calls = 2

\* C7, as claimed: on a request whose filing text is already cached, the
\* cache lookup comes before every network request of the call.
C7_LookupBeforeAnyRequest ==
    (s_obj = "ingestor" /\ s_lookup.done /\ s_lookup.existed) =>
        \A i \in 1..Len(s_trace) :
            s_trace[i] = "cache_lookup" => i = 1

\* C7, amended: the cache is consulted before the filing document is
\* fetched, and after the submissions feed has been requested (the key needs
\* the accession number); a request whose text is cached and readable
\* requests no document.
C7_LookupBeforeDocumentFetch ==
    s_obj = "ingestor" =>
        /\ \A i \in 1..Len(s_trace) :
              s_trace[i] = "doc" => \E j \in 1..(i - 1) : s_trace[j] = "cache_lookup"
        /\ \A i \in 1..Len(s_trace) :
              s_trace[i] = "cache_lookup" => \E j \in 1..(i - 1) : s_trace[j] = "sub"
        /\ (s_lookup.done /\ s_lookup.existed /\ s_lookup.readable) => ~Requested("doc")

C7_Witness ==
    /\ s_obj = "ingestor" /\ s_pc = "idle"
    /\ s_lookup.done /\ s_lookup.existed /\ s_lookup.readable
    /\ s_result.source = "cache"
    /\ s_trace = <<"sub", "cache_lookup">>

\* C8: no text file a live fetch has written holds an empty text (the least
\* any minimum threshold asks), and no cache hit returns one.
C8_NoEmptyCacheEntry ==
    /\ \A k \in Keys : live_written[k] => text_cache[k].text.len > 0
    /\ (s_pc = "idle" /\ s_result.source = "cache") => s_result.text.len > 0

\* Resolution ran in the call in progress (SECIngestor returns before it
\* when it has no user agent).
ResolutionRan == s_obj = "service" \/ (s_obj = "ingestor" /\ user_agent)

\* C9: a call for a ticker that is in no directory makes one directory fetch
\* operation and requests no other URL, resolves no CIK, and ends reporting
\* the resolution failure.
C9_AbsentTickerOnlyDirectoryFetch ==
    (ResolutionRan /\ Upper(s_ticker) \notin Directory) =>
        /\ s_ops = <<"dir">>
        /\ \A i \in 1..Len(s_trace) : s_trace[i] = "dir"
        /\ s_cik = "none"
        /\ s_pc = "idle" =>
              /\ s_obj = "ingestor" =>
                    s_result = IngestorFailure("error", "Could not resolve CIK")
              /\ s_obj = "service" =>
                    s_result = ServiceResult(404, "Ticker not found or CIK lookup failed")

C9_Witness ==
    /\ s_obj = "ingestor" /\ s_pc = "idle"
    /\ s_ticker = "ZZZZ"
    /\ g_resp = Received(200)
    /\ s_trace = <<"dir">>
    /\ s_result.status = "error"

\* The outcome of a request asks for a retry: status 429 or 503, or a
\* transport exception.
AsksRetry(o) == o.exc \/ o.status \in {429, 503}

\* C10: a wrapper call makes at most 3 requests; after a request that met
\* 429, 503 or a transport exception, with attempts left, the wrapper has
\* slept 1, 2, ... seconds and goes on to the next request; a response with
\* any other status is handed to the caller as received.
C10_WrapperRetryPolicy ==
    (s_pc \in {"get", "after"} /\ g_n > 0) =>
        /\ g_n <= 3
        /\ (AsksRetry(g_last) /\ g_n < 3) =>
              /\ s_pc = "get"
              /\ g_sleeps = SubSeq(<<1, 2, 4>>, 1, g_n)
        /\ ~AsksRetry(g_last) =>
              /\ s_pc = "after"
              /\ g_resp = Received(g_last.status)
\* The wrapper call in progress has used all its attempts and the last one
\* met what that wrapper retries on.
Exhausted ==
    /\ s_pc = "after"
    /\ g_n = retries
    /\ \/ g_last.exc
       \/ s_obj = "ingestor" /\ IngestorRetries(g_last.status)
       \/ s_obj = "service" /\ ServiceRetries(g_last.status)

\* C11, as claimed: when the attempts are exhausted the caller gets the
\* last-seen error response or the last transport exception, never a response
\* object that the server did not send.
C11_ExhaustionLastResponseOrRaise ==
    /\ Exhausted =>
          IF g_last.exc THEN g_resp = Raised ELSE g_resp = Received(g_last.status)
    /\ g_resp.kind # "sentinel"

\* C11, amended: when the attempts are exhausted SECIngestor's wrapper raises
\* the last transport exception if the last attempt raised, and otherwise
\* returns an empty Response that was never received; SecService's wrapper
\* returns the empty Response in both cases; the empty Response is handed
\* back only on exhaustion.
C11_ExhaustionSentinelOrRaise ==
    /\ (Exhausted /\ s_obj = "ingestor") =>
          IF g_last.exc THEN g_resp = Raised ELSE g_resp = Sentinel
    /\ (Exhausted /\ s_obj = "service") => g_resp = Sentinel
    /\ g_resp = Sentinel => (g_n = retries /\ g_sleeps = <<1, 2, 4>>)
    /\ g_resp = Raised => (s_obj = "ingestor" /\ g_n = retries /\ g_last.exc)

C11_Witness ==
    /\ s_obj = "ingestor" /\ s_pc = "after"
    /\ g_n = retries
    /\ g_last = [exc |-> FALSE, status |-> 503]
    /\ g_resp = Sentinel
\* The indices of a feed whose form is one of 10-K, 20-F, 40-F.
AcceptedAt(feed) ==
    {i \in 1..Len(feed.form) : feed.form[i] \in {"10-K", "20-F", "40-F"}}

Lowest(S) == CHOOSE i \in S : \A j \in S : i <= j

C12_WitnessNotFound ==
    /\ s_obj = "ingestor" /\ s_pc = "idle"
    /\ s_result.status = "not_found"
    /\ s_trace = <<"sub">>
----------------------------------------------------------------------------
(* Claims about XBRLMetrics.get_company_facts, checked under SpecFacts     *)

\* C13: a call that has its CIK requests the companyfacts document if and
\* only if no cache file exists or the file is at least 24 hours (86400 s)
\* old; otherwise it returns the cached document without a request; a
\* successful download replaces the entry with the document just fetched.
C13_FactsCacheFreshFor24h ==
    /\ (x_pc = "idle" /\ x_seen.checked) =>
          /\ x_requested <=> (~x_seen.existed \/ x_seen.age >= 86400)
          /\ ~x_requested => /\ x_result.kind = "cached"
                              /\ x_result.doc = x_seen.doc
          /\ x_result.kind = "live" =>
                /\ x_requested
                /\ x_cache = [exists |-> TRUE, mtime |-> x_result.at,
                              doc |-> x_result.doc]
    /\ (x_pc = "download") =>
          /\ x_seen.checked
          /\ ~x_seen.existed \/ x_seen.age >= 86400
    /\ ~x_seen.checked => ~x_requested

C13_Witness ==
    /\ x_pc = "idle" /\ x_seen.checked
    /\ x_seen.existed /\ x_seen.age = 86399
    /\ x_result.kind = "cached"
    /\ x_calls = 2

C13_WitnessStale ==
    /\ x_pc = "idle" /\ x_seen.checked
    /\ x_seen.existed /\ x_seen.age = 86400
    /\ x_result.kind = "live" /\ x_result.doc # x_seen.doc
----------------------------------------------------------------------------
(* Claims about XBRLMetrics.extract_metrics and analyze_xbrl, checked      *)
(* under SpecExtract                                                       *)

\* A row of the table has been built.
RowBuilt == e_row.year # 0

Absent(v) == v = None
ZeroOrAbsent(v) == v = None \/ v = Num(0)

\* C14: in every row of the table net_margin is None when revenue is zero or
\* absent or net income is absent, roe is None when equity is zero or absent
\* or net income is absent, fcf is None when operating cash flow is absent,
\* and building the row raises nothing.
C14_RatiosUndefinedNeverRaise ==
    /\ e_raised = "none"
    /\ RowBuilt =>
          /\ (ZeroOrAbsent(e_row.revenue) \/ Absent(e_row.net_income))
                => e_row.net_margin = None
          /\ (ZeroOrAbsent(e_row.equity) \/ Absent(e_row.net_income))
                => e_row.roe = None
          /\ Absent(e_row.operating_cash_flow) => e_row.fcf = None
          /\ \A f \in {"net_margin", "roe", "fcf"} : e_row[f].k \in {"none", "num"}

C14_Witness ==
    /\ RowBuilt
    /\ e_row.revenue = Num(0)
    /\ e_row.net_income = Num(4)
    /\ e_row.equity = Num(0)
    /\ e_row.operating_cash_flow = None
    /\ e_row.net_margin = None /\ e_row.roe = None /\ e_row.fcf = None
    /\ e_pc = "done"
\* extract_metrics returned a table with at least one year.
TableReturned == e_pc \in {"done", "served"} /\ ~e_error /\ e_raised = "none"
                 /\ Len(e_targets) > 0

\* C15: when the metrics handed to the /ai/analyze/xbrl flow hold None
\* values, analyze_xbrl and AIAnalyst.analyze still build their context and
\* go on to a provider.
C15_UndefinedMetricsReachProvider ==
    (e_pc = "served" /\ TableReturned) => e_http = "provider"

\* The years that have revenue, and the latest of them.
RevenueYears == {y \in Years : e_rev[y] # None}
LatestYear == CHOOSE y \in RevenueYears : \A z \in RevenueYears : z <= y

\* Revenue is present and strictly positive in year y.
PositiveRevenue(y) == y \in RevenueYears /\ e_rev[y].n > 0

C16_WitnessUndefined ==
    /\ e_pc = "done" /\ ~e_error
    /\ e_rev[2023] = Num(1000) /\ e_rev[2020] = Num(0)
    /\ e_i = Len(e_targets)
    /\ e_cagr = None
----------------------------------------------------------------------------
(* Claims about the CAGR of both engines, checked under SpecCagr           *)

\* Both engines have returned their metrics.
BothComputed == e_pc \in {"done", "served"} /\ ~e_error /\ e_raised = "none"
                /\ c_pc = "done"

\* C17, as claimed: for revenue 100, 110, 120, 133.1 the 3-year CAGR of the
\* engines is about 0.0995, that is 9 percent and a fraction.
C17_CagrAbout0995 ==
    BothComputed =>
        /\ e_cagr = [k |-> "num", n |-> 9, d |-> 100]
        /\ c_out.revenue_cagr_3yr = [k |-> "num", n |-> 9, d |-> 100]

\* C17, amended: for revenue 100, 110, 120, 133.1 the 3-year CAGR of both
\* engines is (133.1/100)^(1/3) - 1, which is exactly 0.10 since
\* 1.1^3 = 1.331.
C17_CagrIsOneTenth ==
    BothComputed =>
        /\ e_cagr = [k |-> "num", n |-> 10, d |-> 100]
        /\ c_out.revenue_cagr_3yr = e_cagr
        /\ Cube(100 + e_cagr.n) * e_rev[2020].n = e_rev[2023].n * Cube(100)

C17_Witness ==
    /\ BothComputed
    /\ e_rev[2020] = Num(1000) /\ e_rev[2023] = Num(1331)
    /\ c_in.revenue = <<Num(1000), Num(1100), Num(1200), Num(1331)>>
    /\ e_cagr.n = 10 /\ c_out.revenue_cagr_3yr.n = 10

----------------------------------------------------------------------------
(* Claims about FinancialMetrics.calculate_metrics, checked under SpecCsv  *)

\* The file was read, the ticker has rows, and the Year cell of the last row
\* is not empty.
RowsRead == c_pc = "done" /\ c_in.file = "ok" /\ Len(c_in.revenue) > 0
            /\ c_in.year # "nan"

Has(col) == col \in c_in.cols

LatestRevenue == c_in.revenue[Len(c_in.revenue)]

\* C18: when the revenue of the latest year is zero, net_margin and
\* operating_margin are 0 and the result is a metrics result, not an error;
\* roe is 0 when the latest equity is zero.
C18_ZeroDenominatorGivesZero ==
    /\ (RowsRead /\ Has("Revenue") /\ LatestRevenue = Num(0)) =>
          /\ c_out.error = "none"
          /\ c_out.net_margin = Num(0)
          /\ c_out.operating_margin = Num(0)
    /\ (RowsRead /\ Has("Shareholders Equity") /\ c_in.equity = Num(0)) =>
          /\ c_out.error = "none"
          /\ c_out.roe = Num(0)

C18_Witness ==
    /\ RowsRead /\ c_in.cols = Columns
    /\ Len(c_in.revenue) = 4 /\ LatestRevenue = Num(0)
    /\ c_in.equity = Num(0)
    /\ c_out.error = "none" /\ c_out.net_margin = Num(0) /\ c_out.roe = Num(0)

----------------------------------------------------------------------------
(* Claims about Forecaster.generate_forecast, checked under SpecForecast   *)

C20_WitnessFitRaises ==
    /\ f_pc = "done"
    /\ f_in.rows = 3 /\ f_in.revenue /\ f_in.shape = "nan"
    /\ f_out = NoForecast

\* A history of at least two rows with a revenue column has been forecast.
Forecastable == f_pc = "done" /\ f_in.rows >= 2 /\ f_in.revenue

\* Every cell of the revenue column is a number.
NumericRevenue == \A i \in 1..f_in.rows : YAt(f_in, i).k = "num"

\* The years last+1, last+2, last+3 with one projection each; on the line
\* y = 2x + 10 the slope is 2 and every projection is on the line.
ThreeYearsAhead ==
    /\ f_out.kind = "forecast"
    /\ f_out.forecast_years = <<LastX(f_in) + 1, LastX(f_in) + 2, LastX(f_in) + 3>>
    /\ Len(f_out.forecast_revenue) = 3
    /\ f_in.shape = "linear" =>
          /\ f_out.slope.d # 0
          /\ f_out.slope.n = 2 * f_out.slope.d
          /\ \A j \in 1..3 :
                f_out.forecast_revenue[j].n =
                    (2 * f_out.forecast_years[j] + 10) * f_out.forecast_revenue[j].d

C21_WitnessIndex ==
    /\ Forecastable
    /\ f_in.rows = 4 /\ ~f_in.year /\ f_in.shape = "square"
    /\ f_out.forecast_years = <<4, 5, 6>>
----------------------------------------------------------------------------
(* Claims about RiskAnalyst, checked under SpecRisk and SpecSection        *)

\* No fragment of the risk section is longer than 20 characters.
NoQualifying == \A i \in 1..r_in.raw : LenOf(r_in.lens, i) <= 20

\* The empty report: no sentence, every count zero, no error entry.
EmptyReport ==
    /\ r_out.kind = "report"
    /\ r_out.error = "none"
    /\ r_out.top = <<>>
    /\ r_out.negative = 0 /\ r_out.neutral = 0 /\ r_out.positive = 0

Analysed == Take(SplitSentences(r_in), 200)

\* A class with the highest probability in a distribution.
IsArgmax(dist, l) == \A c \in {"positive", "negative", "neutral"} : dist[c] <= dist[l]

\* The sentences of a report are in non-increasing order of negative-class
\* probability and no analysed sentence left out is above a returned one.
Ranked(top, analysed) ==
    LET returned == {top[a].text : a \in 1..Len(top)}
        lowest == IF top = <<>> THEN 100 ELSE top[Len(top)].score
    IN /\ \A a \in 1..(Len(top) - 1) : top[a].score >= top[a + 1].score
       /\ \A j \in 1..Len(analysed) :
             analysed[j] \notin returned
                 => r_in.clf[analysed[j] % 3].negative <= lowest

\* C23: a report on classifier outputs has at most top_n sentences, in
\* non-increasing order of negative-class probability, none of the omitted
\* sentences above a returned one; each label is a class of highest
\* probability; the three counts sum to the number of analysed sentences,
\* which is at most 200.
C23_TopNRankedAndCounted ==
    (r_pc = "done" /\ r_out.kind = "report" /\ r_out.total >= 0) =>
        LET analysed == Analysed IN
        /\ Len(r_out.top) <= r_in.top_n
        /\ Ranked(r_out.top, analysed)
        /\ \A a \in 1..Len(r_out.top) :
              IsArgmax(r_in.clf[r_out.top[a].text % 3], r_out.top[a].label)
        /\ r_out.negative + r_out.neutral + r_out.positive = r_out.total
        /\ r_out.total = Len(analysed)
        /\ r_out.total <= 200

\* The strings of a document that match the start marker, and those after
\* string s that match an end marker.
StartMarkers == {i \in 1..Len(d_in) : d_in[i].kind = "item1a"}
EndMarkersAfter(s) == {i \in (s + 1)..Len(d_in) : d_in[i].kind \in {"item1b", "item2"}}

C30_WitnessCap ==
    /\ d_pc = "done"
    /\ d_in = <<[kind |-> "item1a", len |-> 21], [kind |-> "text", len |-> 30000],
               [kind |-> "text", len |-> 30000]>>
    /\ TextLen(d_in) = 60023
    /\ d_out.from = 0 /\ d_out.to = 50000

C30_WitnessNoStart ==
    /\ d_pc = "done"
    /\ d_in = <<[kind |-> "text", len |-> 30000], [kind |-> "item1b", len |-> 8],
               [kind |-> "text", len |-> 30000]>>
    /\ d_out.from = 0 /\ d_out.to = 50000
----------------------------------------------------------------------------
(* Claims about provider replies, checked under SpecReply                  *)

\* The text the call works on.
ReplyText == TextOf(k_in.reply)

\* The call went down the cloud path and the provider replied.
CloudReplied ==
    \/ k_op = "call_openai" /\ k_in.env = "ok"
    \/ k_op = "analyze_10k" /\ k_in.env = "cloud_ok"

\* The body of a reply is the text of one JSON object.
IsObjectText(body) ==
    \/ Len(body) = 1 /\ body[1] \in ObjectTokens
    \/ body = <<"open", "close">>

ObjectOf(body) == IF Len(body) = 1 THEN JsonValue(body[1]) ELSE Object({}, 0)

\* The outcome of the call in progress on another reply.
OutcomeOn(reply) ==
    LET in == [k_in EXCEPT !.reply = reply] IN
    CASE k_op = "call_openai" -> OpenaiReplyOf(in)
      [] k_op = "call_ollama" -> OllamaReplyOf(in)
      [] k_op = "analyze_10k" -> Analyze10kOf(in)

\* C24: a cloud reply that is the text X of a JSON object inside a
\* ```json ... ``` fence, with or without white space around X, is parsed to
\* the report that the reply X alone is parsed to, which is the object X.
C24_FencedParsedAsUnfenced ==
    (k_pc = "done" /\ CloudReplied /\ IsObjectText(k_in.reply.body)
        /\ k_in.reply.lead = "fence_json" /\ k_in.reply.trail = "fence") =>
        /\ k_out = OutcomeOn([lead |-> "none", ws |-> FALSE, body |-> k_in.reply.body,
                              trail |-> "none"])
        /\ k_out.escaped = "none"
        /\ k_out.result = ObjectOf(k_in.reply.body)

C24_Witness ==
    /\ k_pc = "done" /\ k_op = "call_openai" /\ k_in.env = "ok"
    /\ k_in.reply = [lead |-> "fence_json", ws |-> TRUE, body |-> <<"report">>,
                     trail |-> "fence"]
    /\ k_out.accepted
    /\ k_out.result = Object(AnalysisKeys, 21)

C24_WitnessFiling ==
    /\ k_pc = "done" /\ k_op = "analyze_10k" /\ k_in.env = "cloud_ok"
    /\ k_in.reply = [lead |-> "fence_json", ws |-> TRUE, body |-> <<"filing">>,
                     trail |-> "fence"]
    /\ k_out.result = Object(FilingKeys, 21)

ParsedOnPath ==
    IF k_in.env = "cloud_ok" THEN JsonLoads(CleanReply(ReplyText))
    ELSE ParseJson(ReplyText).analysis

\* C26: in analyze_10k_content a provider reply that is not valid JSON, or
\* lacks keys of the filing schema, is never lost: the call returns, and the
\* result holds the raw text of the reply, or the object parsed from it.
C26_BadReplyNeverDiscarded ==
    (k_pc = "done" /\ k_op = "analyze_10k" /\ k_in.env \in {"cloud_ok", "local_ok"}
        /\ ReplyText # <<>>
        /\ (ParsedOnPath.type = "invalid" \/ ~(FilingKeys \subseteq ParsedOnPath.keys))) =>
        /\ k_out.escaped = "none"
        /\ \/ k_out.llm.raw_output = ReplyText
           \/ ParsedOnPath.type = "dict" /\ k_out.result = ParsedOnPath

\* C27: every report an entry point returns has the five fields of its own
\* schema: analyze (through _call_openai or _call_ollama) the report schema,
\* analyze_10k_content, which always returns, the filing schema.
C27_FiveFieldsOfOwnSchema ==
    k_pc = "done" =>
        /\ (k_op \in {"call_openai", "call_ollama"} /\ k_out.accepted) =>
              /\ k_out.result.type = "dict"
              /\ k_out.result.keys = AnalysisKeys
        /\ k_op = "analyze_10k" =>
              /\ k_out.escaped = "none"
              /\ k_out.keys = FilingKeys

\* C28: with use_llm set, a failure to load the local model or to generate
\* gives a result whose llm entry has used = false and the error message,
\* analyze_10k_content raises nothing, and the analysis fields are the
\* "Analysis not performed." placeholder.
C28_LocalFailureIsStructured ==
    (k_pc = "done" /\ k_op = "analyze_10k"
        /\ k_in.env \in {"local_load_fail", "local_gen_fail"}) =>
        /\ k_out.escaped = "none"
        /\ k_out.llm.present
        /\ k_out.llm.used = "false"
        /\ k_out.llm.error = IF k_in.env = "local_load_fail"
                             THEN "Model Load Failed" ELSE "Generation Failed"
        /\ k_out.result = Placeholder
        /\ k_out.keys = FilingKeys

C28_Witness ==
    /\ k_pc = "done" /\ k_op = "analyze_10k"
    /\ k_in.env = "local_gen_fail" /\ k_in.finbert = "report"
    /\ k_in.reply.body = <<"filing">>
    /\ k_out.llm.used = "false" /\ k_out.llm.error = "Generation Failed"
    /\ k_out.result = Placeholder

\* Where the balanced JSON objects of a text start, and the object at i.
BalancedAt(text) ==
    {i \in 1..Len(text) :
        \/ text[i] \in ObjectTokens
        \/ text[i] = "open" /\ i < Len(text) /\ text[i + 1] = "close"}

BalancedObject(text, i) ==
    IF text[i] \in ObjectTokens THEN JsonValue(text[i]) ELSE Object({}, 0)

\* C29: when the output of the local model holds a balanced JSON object,
\* _parse_json returns the first of them as the analysis, whatever precedes
\* or follows it.
C29_FirstBalancedObjectParsed ==
    (k_pc = "done" /\ k_op = "analyze_10k" /\ k_in.env = "local_ok"
        /\ BalancedAt(ReplyText) # {}) =>
        /\ k_out.llm.used = "true"
        /\ k_out.llm.has_analysis
        /\ k_out.llm.analysis = BalancedObject(ReplyText, First(BalancedAt(ReplyText)))
----------------------------------------------------------------------------
(* Claims about ModelManager handles, checked under SpecModels             *)

\* C40: once the sentiment pipeline or the local LLM has been loaded into
\* the ModelManager, no step of any thread (a construction or an accessor
\* call) sets that handle back to unloaded, and the instance, once created,
\* stays the instance every construction returns.
C40_LoadedHandleNeverReset ==
    [][/\ mm_finbert = "loaded" => mm_finbert' = "loaded"
       /\ mm_llm_model = "loaded" => mm_llm_model' = "loaded"
       /\ mm_instance => mm_instance']_vars
----------------------------------------------------------------------------
(* Claims about the validation of cloud replies, checked under SpecAnalyze *)

\* The cloud calls of the request that did not end it with a report.
FailedCloudCalls ==
    Len(cloud_log) - (IF outcome = "returned" THEN 1 ELSE 0)

AllInvalidResponses == \A i \in 1..Len(cloud_log) : cloud_log[i] = "dict"

----------------------------------------------------------------------------
(* Claims about the filing-text cache, checked under SpecSec               *)

\* The call in progress ended on the cache-hit path for `key`.
CacheHit(key) ==
    /\ s_obj = "ingestor" /\ s_pc = "idle"
    /\ s_lookup.done /\ s_lookup.key = key
    /\ s_result.source = "cache"

\* C37: the sec_text a cache hit returns for a key equals the sec_text the
\* live fetch that created the entry of that key returned, whatever the
\* length of the filing text.
C37_CacheHitEqualsLiveText ==
    \A key \in Keys :
        (CacheHit(key) /\ live_written[key] /\ meta_files[key]) =>
            s_result.text = live_text[key]

\* The call in progress ended with status "error" after it had requested
\* the filing document.
LiveFetchError ==
    /\ s_obj = "ingestor" /\ s_pc = "idle"
    /\ s_lookup.done
    /\ s_result.status = "error"
    /\ Requested("doc")

\* C38: a call that ends with status "error" during the live fetch leaves
\* no text file for its key that was not there when the call looked.
C38_FailedFetchLeavesNoEntry ==
    (LiveFetchError /\ ~s_lookup.existed) => ~text_cache[s_lookup.key].exists

\* C39: get_latest_filing_text never raises: whatever the directory, the
\* submissions and the document requests meet and whatever the shape of the
\* submissions feed, a finished call has returned a result with a status.
C39_IngestorNeverRaises ==
    (s_obj = "ingestor" /\ s_pc = "idle") =>
        s_result.status \in {"success", "warning", "error", "not_found"}
----------------------------------------------------------------------------
(* Claims about concurrent requests for one cache key, under SpecRace      *)

\* C36: with concurrent requests for the same key, every text returned
\* with source "cache" is the complete extracted text of the filing as a
\* completed write left it: never an empty or a partial text.
C36_CacheHitNeverPartial ==
    \A q \in Requests :
        (w_pc[q] = "idle" /\ w_out[q].source = "cache") => w_out[q].text = w_doc
----------------------------------------------------------------------------
(* Claims about the conventions of the two metrics paths, under SpecBoth   *)

BothRan == b_csv.ran /\ b_xbrl.ran

\* A ratio whose denominator is zero or missing.
NoDenominator(den) == den = None \/ den = Num(0)

\* C34: on the same latest-year figures the CSV path and the XBRL path
\* give the same free cash flow (operating cash flow minus capital
\* expenditure, whatever the sign capex is stored with), and mark a ratio
\* whose denominator is zero or missing in the same way.
C34_SameSignAndZeroGuard ==
    BothRan =>
        /\ b_in.operating_cash_flow # None => b_csv.fcf = b_xbrl.fcf
        /\ NoDenominator(b_in.revenue) => b_csv.net_margin = b_xbrl.net_margin
        /\ NoDenominator(b_in.equity) => b_csv.roe = b_xbrl.roe
----------------------------------------------------------------------------
(* Claims about the API handlers, checked under SpecApi                    *)

\* The /ask request has been answered with status 200.
AskCompleted == h_req.op = "ask" /\ h_pc = "done" /\ h_resp.status = 200

\* C31: every /ask response that completes lists each degraded step of the
\* request in warnings: no filing text from the SEC ingestion (the case of
\* an unset SEC_USER_AGENT included), metrics unavailable, forecast
\* undefined, AI call failed.
C31_EveryDegradedStepWarned ==
    AskCompleted =>
        /\ h_req.sec # "success" => "sec" \in h_resp.warnings
        /\ h_req.metrics = "error" => "metrics" \in h_resp.warnings
        /\ (h_req.metrics = "ok" /\ h_req.forecast = "none") =>
              "forecast" \in h_resp.warnings
        /\ (h_req.use_ai /\ h_req.ai = "raise") => "ai" \in h_resp.warnings

\* C32: in every /ask response with ai_used = true the Executive Summary of
\* the answer is present and is not the placeholder "N/A"; in every
\* response to a request with use_ai whose ai_used is false it is the
\* "AI Analysis failed" message, and the status is 200.
C32_ExecutiveSummaryFollowsAiUsed ==
    (h_req.op = "ask" /\ h_pc = "done") =>
        /\ (h_resp.status = 200 /\ h_resp.ai_used) =>
              /\ "Executive Summary" \in h_resp.answer.keys
              /\ h_resp.answer.summary \notin {"N/A", ""}
        /\ (h_req.use_ai /\ ~h_resp.ai_used /\ h_req.ai = "raise") =>
              /\ h_resp.status = 200
              /\ h_resp.answer.summary = "AI Analysis failed"

\* C33: when a /sec/10k/analyze request with one of use_ai, use_finbert,
\* use_llm set has fetched its filing, the analysis offloaded to a worker
\* has run to completion before the response is built, and what the handler
\* holds is its result, a mapping.
C33_OffloadedAnalysisCompleted ==
    (h_req.op = "analyze" /\ h_req.fetch = 200 /\ h_pc \in {"respond", "done"}
        /\ (h_req.use_ai \/ h_req.use_finbert \/ h_req.use_llm)) =>
        /\ h_combined.kind = "mapping"
        /\ h_combined.ran
====
